---- MODULE Spec2Model ----
(***************************************************************************)
(* Model of the AWS infrastructure manager MCP server                      *)
(* (src/src/aws_infra_manager_mcp_server/server.py, the minimal tool set,   *)
(* and server_backup.py, the comprehensive tool set).                      *)
(*                                                                         *)
(* State: the module-level AWSClientManager `aws_clients` (its _session    *)
(* and _clients fields), and, per caller thread, the position inside       *)
(* get_client / get_session / the tool body together with its locals.      *)
(* The AWS SDK (boto3.Session(), session.client(), the provider calls) is   *)
(* the environment: each SDK call either returns or raises, chosen          *)
(* nondeterministically from small sets.                                    *)
(*                                                                         *)
(* Spec     : one caller at a time (tools are synchronous functions; the    *)
(*            CLI and the default host run them one after another); the     *)
(*            process runs server.py.                                       *)
(* ToolSpec : one caller at a time, the tools of server.py or of            *)
(*            server_backup.py, whichever module the process runs.          *)
(* ConcSpec : several host threads inside get_client at once; the code      *)
(*            holds no lock, so the threads interleave between statements.  *)
(* DeleteSpec: one caller at a time, delete_s3_bucket of server_backup.py;  *)
(*            the provider's listing pages are fixed at the start.          *)
(* CliSpec  : one run of MCPServerCLI.run (cli.py); the functions it        *)
(*            imports are its environment: each call returns a success      *)
(*            envelope, returns an error envelope, or raises.               *)
(***************************************************************************)
EXTENDS Integers, Sequences, FiniteSets, TLC

(* ------------------------------- bounds -------------------------------- *)
\* number of host threads of ConcSpec
NumThreads == 2
\* number of get_client / tool invocations in one run
MaxCalls == 3
\* number of tool invocations in one run of ToolSpec
MaxToolCalls == 2

Threads == 1..NumThreads

(* ------------------------------- inputs -------------------------------- *)
\* Python's None for an omitted region argument
None == "<None>"
\* the `region` argument: omitted, the literal 'default', a real region
Regions == {None, "default", "us-east-1"}
\* services asked for directly through AWSClientManager.get_client
Services == {"ec2", "s3"}
\* the tools of server.py
Tools ==
  {"get_caller_identity", "list_ec2_instances", "list_vpcs", "list_s3_buckets",
   "list_rds_instances", "list_lambda_functions", "get_aws_regions"}
\* the tools the threads of ConcSpec run (two tools that share the ec2 client)
ConcTools == {"list_ec2_instances", "list_vpcs"}
ConcServices == {"ec2"}
ConcRegions == {None, "us-east-1"}

\* the service each tool passes to aws_clients.get_client
ToolService(tool) ==
  CASE tool = "get_caller_identity" -> "sts"
    [] tool = "list_ec2_instances" -> "ec2"
    [] tool = "list_vpcs" -> "ec2"
    [] tool = "list_s3_buckets" -> "s3"
    [] tool = "list_rds_instances" -> "rds"
    [] tool = "list_lambda_functions" -> "lambda"
    [] tool = "get_aws_regions" -> "ec2"

\* the region each tool passes to aws_clients.get_client: its region
\* argument, except get_aws_regions, which takes none and uses 'us-east-1'
ToolRegion(tool, region) ==
  IF tool = "get_aws_regions" THEN "us-east-1" ELSE region

\* the provider operation each tool invokes on its client
ToolOperation(tool) ==
  CASE tool = "get_caller_identity" -> "GetCallerIdentity"
    [] tool = "list_ec2_instances" -> "DescribeInstances"
    [] tool = "list_vpcs" -> "DescribeVpcs"
    [] tool = "list_s3_buckets" -> "ListBuckets"
    [] tool = "list_rds_instances" -> "DescribeDBInstances"
    [] tool = "list_lambda_functions" -> "ListFunctions"
    [] tool = "get_aws_regions" -> "DescribeRegions"

AllServices == Services \cup {ToolService(tool) : tool \in Tools}

(* ------------------------------ exceptions ----------------------------- *)
NoExc == [type |-> "", code |-> "", message |-> "", operation |-> ""]

\* botocore.exceptions.ClientError(error_response, operation_name)
ClientError(code, message, operation) ==
  [type |-> "ClientError", code |-> code, message |-> message, operation |-> operation]

\* any exception that is not a ClientError, with its message
OtherError(type, message) ==
  [type |-> type, code |-> "", message |-> message, operation |-> ""]

\* isinstance(e, ClientError)
IsClientError(e) == e.type = "ClientError"

\* str(e): botocore formats a ClientError from its code, operation and
\* message; any other exception prints its message
Str(e) ==
  IF IsClientError(e)
  THEN "An error occurred (" \o e.code \o ") when calling the " \o e.operation
         \o " operation: " \o e.message
  ELSE e.message

\* classified provider faults a call of operation op may raise
ClientErrors(op) ==
  {ClientError("AccessDenied", "User is not authorized to perform this action", op),
   ClientError("UnauthorizedOperation", "You are not authorized to perform this operation.", op)}

\* unclassified faults a provider call may raise
OtherErrors == {OtherError("Exception", "Network timeout")}

\* what boto3.Session() may raise
SessionFaults == {OtherError("ProfileNotFound", "The config profile (dev) could not be found")}
\* what session.client(...) may raise
ClientFaults == {OtherError("NoRegionError", "You must specify a region.")}
\* what the identity check sts.get_caller_identity() inside get_session may raise
IdentityFaults ==
  {OtherError("NoCredentialsError", "Unable to locate credentials")}
    \cup ClientErrors("GetCallerIdentity")
    \cup {OtherError("EndpointConnectionError", "Could not connect to the endpoint URL")}

CredentialsMessage ==
  "AWS credentials not configured. Please configure AWS CLI or set environment variables."

(* ------------------- server_backup.py: requests ------------------------ *)
\* the server module the process has loaded
Modules == {"server", "server_backup"}

\* the tools of server_backup.py the model covers
BackupTools ==
  {"launch_ec2_instance", "list_ec2_instances", "terminate_ec2_instance",
   "get_ec2_instance_details", "create_vpc", "create_subnet",
   "add_security_group_rule", "create_s3_bucket", "list_s3_buckets"}

\* the service each tool of server_backup.py passes to aws_clients.get_client
BackupToolService(tool) ==
  IF tool \in {"create_s3_bucket", "list_s3_buckets", "delete_s3_bucket"} THEN "s3" ELSE "ec2"

\* Optional[...] fields: None, or a value
Absent == <<>>
Some(v) == <<v>>
\* `x is not None`
IsNotNone(opt) == opt # Absent
\* `if x:` for an Optional[str] (None and '' are false)
TruthyStr(opt) == opt # Absent /\ opt[1] # ""
\* `if x:` for an Optional list or dict (None and empty are false)
Truthy(opt) == opt # Absent /\ opt[1] # <<>>

\* Dict[str, str] tag maps, as the sequence of their (key, value) items
TagDicts ==
  {<<>>,
   <<<<"Name", "x">>>>,
   <<<<"Name", "test-instance">>, <<"Environment", "production">>>>}
TagOptions == {Absent} \cup {Some(d) : d \in TagDicts}

\* [{'Key': k, 'Value': v} for k, v in tags.items()]
tag_list(tags) == [i \in 1..Len(tags) |-> [Key |-> tags[i][1], Value |-> tags[i][2]]]

NoRequest == [none |-> TRUE]
EmptyParams == [k \in {} |-> TRUE]

\* filters of list_ec2_instances: None, {} or a dict name -> values (as items)
FilterOptions ==
  {Absent, Some(<<>>),
   Some(<<<<"instance-state-name", <<"running">>>>>>),
   Some(<<<<"instance-state-name", <<"running">>>>, <<"instance-type", <<"t3.micro">>>>>>)}

\* the optional fields of EC2InstanceRequest that become launch parameters
LaunchOptionals == {"key_name", "security_group_ids", "subnet_id", "user_data"}

\* the request values each tool is invoked with (for launch_ec2_instance the
\* optional fields are absent, set one at a time, or all set)
Requests(tool) ==
  CASE tool = "list_ec2_instances" -> [filters : FilterOptions]
    [] tool = "launch_ec2_instance" ->
         {r \in [image_id : {"ami-12345678"}, instance_type : {"t3.micro"},
                 key_name : {Absent, Some("my-key")},
                 security_group_ids : {Absent, Some(<<"sg-1">>)},
                 subnet_id : {Absent, Some("subnet-1")},
                 user_data : {Absent, Some("#!/bin/sh")},
                 tags : TagOptions, min_count : {1}, max_count : {1}] :
            Cardinality({f \in LaunchOptionals : r[f] # Absent}) \in {0, 1, 4}}
    [] tool = "terminate_ec2_instance" -> [instance_id : {"i-1"}]
    [] tool = "get_ec2_instance_details" -> [instance_id : {"i-1"}]
    [] tool = "create_vpc" ->
         [cidr_block : {"10.0.0.0/16"}, enable_dns_hostnames : BOOLEAN,
          enable_dns_support : BOOLEAN, tags : TagOptions]
    [] tool = "create_subnet" ->
         [vpc_id : {"vpc-12345678"}, cidr_block : {"10.0.1.0/24"},
          availability_zone : {Absent, Some("us-east-1a")},
          map_public_ip_on_launch : BOOLEAN, tags : TagOptions]
    [] tool = "add_security_group_rule" ->
         [group_id : {"sg-1"}, ip_protocol : {"tcp"},
          from_port : {Absent, Some(0)}, to_port : {Absent, Some(443)},
          cidr_blocks : {Absent, Some(<<>>),
                         Some(<<"10.0.0.0/16", "192.168.0.0/24">>)},
          source_security_group_id : {Absent, Some("sg-2")},
          rule_type : {"ingress", "egress", "INGRESS"}]
    [] tool = "create_s3_bucket" ->
         [bucket_name : {"test-bucket"}, region : {Absent, Some("eu-west-1")},
          versioning : BOOLEAN, public_read_access : BOOLEAN, tags : TagOptions]
    [] OTHER -> {NoRequest}

\* the tools called with their default arguments: no filters
DefaultRequests(tool) ==
  IF tool = "list_ec2_instances" THEN {[filters |-> Absent]} ELSE Requests(tool)

\* a remote call: the client method and its keyword arguments
Call(op, params) == [op |-> op, params |-> params]

(* ------------------- the tools' remote calls ---------------------------- *)
\* mutant: the filters are not passed on
describe_params_NoFilters(filters) == EmptyParams

\* mutant: a Filters parameter is always sent, empty when there are no filters
describe_params_AlwaysFilters(filters) ==
  [Filters |-> IF Truthy(filters)
               THEN [i \in 1..Len(filters[1]) |->
                       [Name |-> filters[1][i][1], Values |-> filters[1][i][2]]]
               ELSE <<>>]

\* list_ec2_instances: describe_params
describe_params(filters) ==
  IF Truthy(filters)
  THEN [Filters |-> [i \in 1..Len(filters[1]) |->
                       [Name |-> filters[1][i][1], Values |-> filters[1][i][2]]]]
  ELSE EmptyParams

\* launch_ec2_instance: launch_params
launch_params(request) ==
  [ImageId |-> request.image_id, MinCount |-> request.min_count,
   MaxCount |-> request.max_count, InstanceType |-> request.instance_type]
    @@ (IF TruthyStr(request.key_name) THEN [KeyName |-> request.key_name[1]] ELSE EmptyParams)
    @@ (IF Truthy(request.security_group_ids)
        THEN [SecurityGroupIds |-> request.security_group_ids[1]] ELSE EmptyParams)
    @@ (IF TruthyStr(request.subnet_id) THEN [SubnetId |-> request.subnet_id[1]] ELSE EmptyParams)
    @@ (IF TruthyStr(request.user_data) THEN [UserData |-> request.user_data[1]] ELSE EmptyParams)

\* [instance['InstanceId'] for instance in response['Instances']]
instance_ids(response) ==
  [i \in 1..Len(response.Instances) |-> response.Instances[i].InstanceId]

\* mutant: only the first launched instance is tagged
launch_ec2_instance_later_FirstOnly(request, response) ==
  IF Truthy(request.tags) /\ response.Instances # <<>>
  THEN <<Call("create_tags",
              [Resources |-> <<response.Instances[1].InstanceId>>,
               Tags |-> tag_list(request.tags[1])])>>
  ELSE <<>>

\* launch_ec2_instance: the calls after run_instances returned response
launch_ec2_instance_later(request, response) ==
  IF Truthy(request.tags) /\ response.Instances # <<>>
  THEN <<Call("create_tags",
              [Resources |-> instance_ids(response), Tags |-> tag_list(request.tags[1])])>>
  ELSE <<>>

\* mutant: the tag step runs whenever a tag map is given, an empty one included
create_vpc_later_TagsIfGiven(request, response) ==
  IF IsNotNone(request.tags)
  THEN <<Call("create_tags",
              [Resources |-> <<response.Vpc.VpcId>>, Tags |-> tag_list(request.tags[1])])>>
  ELSE <<>>

\* create_vpc: the calls after create_vpc returned response
create_vpc_later(request, response) ==
  (IF request.enable_dns_hostnames
   THEN <<Call("modify_vpc_attribute",
               [VpcId |-> response.Vpc.VpcId, EnableDnsHostnames |-> [Value |-> TRUE]])>>
   ELSE <<>>)
  \o (IF request.enable_dns_support
      THEN <<Call("modify_vpc_attribute",
                  [VpcId |-> response.Vpc.VpcId, EnableDnsSupport |-> [Value |-> TRUE]])>>
      ELSE <<>>)
  \o (IF Truthy(request.tags)
      THEN <<Call("create_tags",
                  [Resources |-> <<response.Vpc.VpcId>>, Tags |-> tag_list(request.tags[1])])>>
      ELSE <<>>)

\* create_subnet: create_params
subnet_params(request) ==
  [VpcId |-> request.vpc_id, CidrBlock |-> request.cidr_block]
    @@ (IF TruthyStr(request.availability_zone)
        THEN [AvailabilityZone |-> request.availability_zone[1]] ELSE EmptyParams)

\* mutant: the subnet is tagged before its attribute is modified
create_subnet_later_TagsFirst(request, response) ==
  (IF Truthy(request.tags)
   THEN <<Call("create_tags",
               [Resources |-> <<response.Subnet.SubnetId>>,
                Tags |-> tag_list(request.tags[1])])>>
   ELSE <<>>)
  \o (IF request.map_public_ip_on_launch
      THEN <<Call("modify_subnet_attribute",
                  [SubnetId |-> response.Subnet.SubnetId,
                   MapPublicIpOnLaunch |-> [Value |-> TRUE]])>>
      ELSE <<>>)

\* create_subnet: the calls after create_subnet returned response
create_subnet_later(request, response) ==
  (IF request.map_public_ip_on_launch
   THEN <<Call("modify_subnet_attribute",
               [SubnetId |-> response.Subnet.SubnetId,
                MapPublicIpOnLaunch |-> [Value |-> TRUE]])>>
   ELSE <<>>)
  \o (IF Truthy(request.tags)
      THEN <<Call("create_tags",
                  [Resources |-> <<response.Subnet.SubnetId>>,
                   Tags |-> tag_list(request.tags[1])])>>
      ELSE <<>>)

\* mutant: the source group is sent whenever it is given
rule_params_BothSources(request) ==
  [GroupId |-> request.group_id, IpProtocol |-> request.ip_protocol]
    @@ (IF IsNotNone(request.from_port) THEN [FromPort |-> request.from_port[1]] ELSE EmptyParams)
    @@ (IF IsNotNone(request.to_port) THEN [ToPort |-> request.to_port[1]] ELSE EmptyParams)
    @@ (IF Truthy(request.cidr_blocks)
        THEN [CidrIp |-> request.cidr_blocks[1][1]]
        ELSE EmptyParams)
    @@ (IF TruthyStr(request.source_security_group_id)
        THEN [SourceSecurityGroupId |-> request.source_security_group_id[1]]
        ELSE EmptyParams)

\* add_security_group_rule: rule_params
rule_params(request) ==
  [GroupId |-> request.group_id, IpProtocol |-> request.ip_protocol]
    @@ (IF IsNotNone(request.from_port) THEN [FromPort |-> request.from_port[1]] ELSE EmptyParams)
    @@ (IF IsNotNone(request.to_port) THEN [ToPort |-> request.to_port[1]] ELSE EmptyParams)
    @@ (IF Truthy(request.cidr_blocks)
        THEN [CidrIp |-> request.cidr_blocks[1][1]]
        ELSE IF TruthyStr(request.source_security_group_id)
             THEN [SourceSecurityGroupId |-> request.source_security_group_id[1]]
             ELSE EmptyParams)

\* create_s3_bucket: create_params (region is the tool's region argument)
create_params(request, region) ==
  [Bucket |-> request.bucket_name]
    @@ (IF region # "us-east-1"
        THEN [CreateBucketConfiguration |-> [LocationConstraint |-> region]]
        ELSE EmptyParams)

\* create_s3_bucket: the public-read policy document for the bucket
bucket_policy(bucket_name) ==
  [Version |-> "2012-10-17",
   Statement |-> <<[Sid |-> "PublicReadGetObject", Effect |-> "Allow", Principal |-> "*",
                    Action |-> "s3:GetObject",
                    Resource |-> "arn:aws:s3:::" \o bucket_name \o "/*"]>>]

\* json.dumps(obj): the JSON text of obj
json_dumps(obj) == <<"json", obj>>

\* mutant: the policy is put before versioning is configured
create_s3_bucket_later_PolicyFirst(request) ==
  (IF request.public_read_access
   THEN <<Call("put_bucket_policy",
               [Bucket |-> request.bucket_name,
                Policy |-> json_dumps(bucket_policy(request.bucket_name))])>>
   ELSE <<>>)
  \o (IF request.versioning
      THEN <<Call("put_bucket_versioning",
                  [Bucket |-> request.bucket_name,
                   VersioningConfiguration |-> [Status |-> "Enabled"]])>>
      ELSE <<>>)
  \o (IF Truthy(request.tags)
      THEN <<Call("put_bucket_tagging",
                  [Bucket |-> request.bucket_name,
                   Tagging |-> [TagSet |-> tag_list(request.tags[1])]])>>
      ELSE <<>>)

\* create_s3_bucket: the calls after create_bucket
create_s3_bucket_later(request) ==
  (IF request.versioning
   THEN <<Call("put_bucket_versioning",
               [Bucket |-> request.bucket_name,
                VersioningConfiguration |-> [Status |-> "Enabled"]])>>
   ELSE <<>>)
  \o (IF request.public_read_access
      THEN <<Call("put_bucket_policy",
                  [Bucket |-> request.bucket_name,
                   Policy |-> json_dumps(bucket_policy(request.bucket_name))])>>
      ELSE <<>>)
  \o (IF Truthy(request.tags)
      THEN <<Call("put_bucket_tagging",
                  [Bucket |-> request.bucket_name,
                   Tagging |-> [TagSet |-> tag_list(request.tags[1])]])>>
      ELSE <<>>)

\* the first remote call of each tool
FirstCall(tool, request, region) ==
  CASE tool = "get_caller_identity" -> Call("get_caller_identity", EmptyParams)
    [] tool = "list_ec2_instances" ->
         Call("describe_instances", describe_params(request.filters))
    [] tool = "list_vpcs" -> Call("describe_vpcs", EmptyParams)
    [] tool = "list_s3_buckets" -> Call("list_buckets", EmptyParams)
    [] tool = "list_rds_instances" -> Call("describe_db_instances", EmptyParams)
    [] tool = "list_lambda_functions" -> Call("list_functions", EmptyParams)
    [] tool = "get_aws_regions" -> Call("describe_regions", EmptyParams)
    [] tool = "launch_ec2_instance" -> Call("run_instances", launch_params(request))
    [] tool = "terminate_ec2_instance" ->
         Call("terminate_instances", [InstanceIds |-> <<request.instance_id>>])
    [] tool = "get_ec2_instance_details" ->
         Call("describe_instances", [InstanceIds |-> <<request.instance_id>>])
    [] tool = "create_vpc" -> Call("create_vpc", [CidrBlock |-> request.cidr_block])
    [] tool = "create_subnet" -> Call("create_subnet", subnet_params(request))
    [] tool = "add_security_group_rule" ->
         Call(IF request.rule_type = "ingress"
              THEN "authorize_security_group_ingress"
              ELSE "authorize_security_group_egress", rule_params(request))
    [] tool = "create_s3_bucket" -> Call("create_bucket", create_params(request, region))

\* the remote calls each tool makes after its first call returned response
LaterCalls(tool, request, response) ==
  CASE tool = "launch_ec2_instance" -> launch_ec2_instance_later(request, response)
    [] tool = "create_vpc" -> create_vpc_later(request, response)
    [] tool = "create_subnet" -> create_subnet_later(request, response)
    [] tool = "create_s3_bucket" -> create_s3_bucket_later(request)
    [] OTHER -> <<>>

(* --------------------------- result envelopes -------------------------- *)
\* mutant: the error envelope also carries a success flag
handle_aws_error_inline_Flagged(operation_name, e) ==
  IF IsClientError(e)
  THEN [success |-> FALSE, error |-> TRUE, error_code |-> e.code,
        error_message |-> e.message, details |-> Str(e)]
  ELSE [success |-> FALSE, error |-> TRUE, error_message |-> Str(e)]

\* mutant: the classified branch reports str(e) as the message
handle_aws_error_inline_Details(operation_name, e) ==
  IF IsClientError(e)
  THEN [error |-> TRUE, error_code |-> e.code, error_message |-> Str(e),
        details |-> Str(e)]
  ELSE [error |-> TRUE, error_message |-> Str(e)]

\* mutant: the unclassified branch reports the exception type as a code
handle_aws_error_inline_Coded(operation_name, e) ==
  IF IsClientError(e)
  THEN [error |-> TRUE, error_code |-> e.code, error_message |-> e.message,
        details |-> Str(e)]
  ELSE [error |-> TRUE, error_code |-> e.type, error_message |-> Str(e)]

\* handle_aws_error_inline(operation_name, e)
handle_aws_error_inline(operation_name, e) ==
  IF IsClientError(e)
  THEN [error |-> TRUE, error_code |-> e.code, error_message |-> e.message,
        details |-> Str(e)]
  ELSE [error |-> TRUE, error_message |-> Str(e)]

\* provider responses (the fields the tools read)
Instance(id, state) ==
  [InstanceId |-> id, InstanceType |-> "t3.micro", State |-> [Name |-> state],
   Tags |-> <<>>]

Responses(tool) ==
  CASE tool = "get_caller_identity" ->
         {[Account |-> "123456789012", Arn |-> "arn:aws:iam::123456789012:user/test-user"]}
    [] tool = "list_ec2_instances" ->
         {[Reservations |-> <<>>],
          [Reservations |-> <<[Instances |-> <<Instance("i-1", "running")>>],
                              [Instances |-> <<Instance("i-2", "stopped"),
                                               Instance("i-3", "running")>>]>>]}
    [] tool = "list_vpcs" -> {[Vpcs |-> <<"vpc-1">>]}
    [] tool = "list_s3_buckets" ->
         {[Buckets |-> <<"test-bucket-1", "test-bucket-2">>, Owner |-> "owner-1"]}
    [] tool = "list_rds_instances" ->
         {[DBInstances |-> <<[DBInstanceIdentifier |-> "db-1", Engine |-> "mysql"]>>]}
    [] tool = "list_lambda_functions" -> {[Functions |-> <<"fn-1">>]}
    [] tool = "get_aws_regions" -> {[Regions |-> <<"us-east-1", "us-west-2">>]}

\* the entry list_ec2_instances appends for one instance
InstanceEntry(instance) ==
  [InstanceId |-> instance.InstanceId, InstanceType |-> instance.InstanceType,
   State |-> instance.State.Name, Tags |-> instance.Tags]

\* mutant: the loop stops after the first reservation
CollectInstances_FirstReservation(reservations) ==
  IF reservations = <<>> THEN <<>>
  ELSE [i \in 1..Len(Head(reservations).Instances) |->
          InstanceEntry(Head(reservations).Instances[i])]

\* the nested loops of list_ec2_instances over reservations and instances
RECURSIVE CollectInstances(_)
CollectInstances(reservations) ==
  IF reservations = <<>> THEN <<>>
  ELSE [i \in 1..Len(Head(reservations).Instances) |->
          InstanceEntry(Head(reservations).Instances[i])]
         \o CollectInstances(Tail(reservations))

\* the entry list_rds_instances appends for one database instance
DBEntry(db) ==
  [DBInstanceIdentifier |-> db.DBInstanceIdentifier, Engine |-> db.Engine]

\* the envelope each tool returns when its provider call returned response
SuccessEnvelope(tool, response) ==
  CASE tool = "get_caller_identity" -> [success |-> TRUE, identity |-> response]
    [] tool = "list_ec2_instances" ->
         [success |-> TRUE, instances |-> CollectInstances(response.Reservations),
          count |-> Len(CollectInstances(response.Reservations))]
    [] tool = "list_vpcs" -> [success |-> TRUE, vpcs |-> response.Vpcs]
    [] tool = "list_s3_buckets" ->
         [success |-> TRUE, buckets |-> response.Buckets, owner |-> response.Owner]
    [] tool = "list_rds_instances" ->
         [success |-> TRUE,
          db_instances |-> [i \in 1..Len(response.DBInstances) |->
                              DBEntry(response.DBInstances[i])]]
    [] tool = "list_lambda_functions" -> [success |-> TRUE, functions |-> response.Functions]
    [] tool = "get_aws_regions" -> [success |-> TRUE, regions |-> response.Regions]

(* ------------------- server_backup.py: responses and envelopes --------- *)
\* the `region` argument of the tools of server_backup.py
BackupRegions == {"us-east-1", "eu-west-1"}
AllRegions == Regions \cup BackupRegions

\* the provider operation behind each client method
ApiOperation(op) ==
  CASE op = "get_caller_identity" -> "GetCallerIdentity"
    [] op = "describe_instances" -> "DescribeInstances"
    [] op = "describe_vpcs" -> "DescribeVpcs"
    [] op = "list_buckets" -> "ListBuckets"
    [] op = "describe_db_instances" -> "DescribeDBInstances"
    [] op = "list_functions" -> "ListFunctions"
    [] op = "describe_regions" -> "DescribeRegions"
    [] op = "run_instances" -> "RunInstances"
    [] op = "create_tags" -> "CreateTags"
    [] op = "terminate_instances" -> "TerminateInstances"
    [] op = "create_vpc" -> "CreateVpc"
    [] op = "modify_vpc_attribute" -> "ModifyVpcAttribute"
    [] op = "create_subnet" -> "CreateSubnet"
    [] op = "modify_subnet_attribute" -> "ModifySubnetAttribute"
    [] op = "list_objects_v2" -> "ListObjectsV2"
    [] op = "list_object_versions" -> "ListObjectVersions"
    [] op = "delete_objects" -> "DeleteObjects"
    [] op = "delete_bucket" -> "DeleteBucket"
    [] op = "authorize_security_group_ingress" -> "AuthorizeSecurityGroupIngress"
    [] op = "authorize_security_group_egress" -> "AuthorizeSecurityGroupEgress"
    [] op = "create_bucket" -> "CreateBucket"
    [] op = "put_bucket_versioning" -> "PutBucketVersioning"
    [] op = "put_bucket_policy" -> "PutBucketPolicy"
    [] op = "put_bucket_tagging" -> "PutBucketTagging"

\* what a signed provider call raises when no credentials can be located
NoCredentials == OtherError("NoCredentialsError", "Unable to locate credentials")

\* the elements of a list
Range(seq) == {seq[i] : i \in 1..Len(seq)}

\* the provider's attribute a describe_instances filter name selects
FilterAttribute(instance, name) ==
  CASE name = "instance-state-name" -> instance.State.Name
    [] name = "instance-type" -> instance.InstanceType
    [] OTHER -> ""

\* the provider keeps an instance when every filter lists its attribute
Matches(instance, filters) ==
  \A f \in Range(filters) : FilterAttribute(instance, f.Name) \in Range(f.Values)

\* the provider's describe_instances: the reservations of the fleet, cut down
\* to the instances the Filters parameter keeps (all, when it is omitted)
describe_instances(fleet, params) ==
  IF "Filters" \notin DOMAIN params THEN fleet
  ELSE LET Keep(instance) == Matches(instance, params.Filters)
           Cut(reservation) == [Instances |-> SelectSeq(reservation.Instances, Keep)]
           NonEmpty(reservation) == reservation.Instances # <<>>
       IN [Reservations |->
             SelectSeq([i \in 1..Len(fleet.Reservations) |-> Cut(fleet.Reservations[i])],
                       NonEmpty)]

\* provider responses to the first call of the tools of server_backup.py
BackupResponses(tool) ==
  CASE tool = "launch_ec2_instance" ->
         {[Instances |-> <<>>],
          [Instances |-> <<Instance("i-1234567890abcdef0", "pending")>>],
          [Instances |-> <<Instance("i-2", "pending"), Instance("i-1", "pending")>>]}
    [] tool = "terminate_ec2_instance" ->
         {[TerminatingInstances |-> <<[InstanceId |-> "i-1"]>>]}
    [] tool = "get_ec2_instance_details" ->
         {[Reservations |-> <<>>],
          [Reservations |-> <<[Instances |-> <<Instance("i-1", "running")>>]>>]}
    [] tool = "create_vpc" ->
         {[Vpc |-> [VpcId |-> "vpc-12345678", CidrBlock |-> "10.0.0.0/16",
                    State |-> "pending"]]}
    [] tool = "create_subnet" ->
         {[Subnet |-> [SubnetId |-> "subnet-12345678", VpcId |-> "vpc-12345678",
                       CidrBlock |-> "10.0.1.0/24", State |-> "pending"]]}
    [] tool = "add_security_group_rule" -> {[Return |-> TRUE]}
    [] tool = "create_s3_bucket" -> {[Location |-> "/test-bucket"]}
    [] OTHER -> Responses(tool)

\* what the provider may answer to the first call of a tool
ProviderResponses(tool, call) ==
  IF tool = "list_ec2_instances"
  THEN {describe_instances(fleet, call.params) : fleet \in Responses(tool)}
  ELSE IF tool \in Tools THEN Responses(tool) ELSE BackupResponses(tool)

\* the value each tool of server_backup.py returns once its calls are done
BackupEnvelope(tool, request, region, response) ==
  CASE tool = "launch_ec2_instance" ->
         [success |-> TRUE, instances |-> response.Instances,
          instance_ids |-> instance_ids(response)]
    [] tool = "terminate_ec2_instance" ->
         [success |-> TRUE, terminating_instances |-> response.TerminatingInstances]
    [] tool = "get_ec2_instance_details" ->
         IF response.Reservations = <<>>
         THEN [error |-> TRUE,
               error_message |-> "Instance " \o request.instance_id \o " not found"]
         ELSE [success |-> TRUE, instance |-> response.Reservations[1].Instances[1]]
    [] tool = "create_vpc" -> [success |-> TRUE, vpc |-> response.Vpc]
    [] tool = "create_subnet" -> [success |-> TRUE, subnet |-> response.Subnet]
    [] tool = "add_security_group_rule" -> [success |-> TRUE, response |-> response]
    [] tool = "create_s3_bucket" ->
         [success |-> TRUE, bucket_name |-> request.bucket_name,
          location |-> response.Location, region |-> region]
    [] OTHER -> SuccessEnvelope(tool, response)

\* mutant: the except clause also reports (empty) instance lists
launch_ec2_instance_except_Partial(e) ==
  IF IsClientError(e)
  THEN [error |-> TRUE, error_code |-> e.code, error_message |-> e.message,
        details |-> Str(e), instances |-> <<>>, instance_ids |-> <<>>]
  ELSE [error |-> TRUE, error_message |-> Str(e), instances |-> <<>>,
        instance_ids |-> <<>>]

\* the except clauses of launch_ec2_instance
launch_ec2_instance_except(e) ==
  IF IsClientError(e)
  THEN [error |-> TRUE, error_code |-> e.code, error_message |-> e.message,
        details |-> Str(e)]
  ELSE [error |-> TRUE, error_message |-> Str(e)]

(* ---------------------------- client registry -------------------------- *)
\* key = f"{service_name}_{region or 'default'}"
ClientKey(service_name, region) ==
  service_name \o "_" \o (IF region = None \/ region = "" THEN "default" ELSE region)

\* mutant: get_session lets the fault through as it is
get_session_except_Reraise(e) == e

\* the except clauses of get_session: what it raises for a fault e
get_session_except(e) ==
  IF e.type = "NoCredentialsError"
  THEN OtherError("Exception", CredentialsMessage)
  ELSE OtherError("Exception", "Failed to initialize AWS session: " \o Str(e))

\* a client handle: the n-th client constructed for (service, region)
NoHandle == [service |-> "", region |-> "", serial |-> 0]
Handle(service, region, n) == [service |-> service, region |-> region, serial |-> n]

NoResult == [pending |-> TRUE]
NoSession == 0
NoResponse == [none |-> TRUE]
\* no bucket is being deleted
NoBucket == [objects |-> <<>>, versions |-> <<>>]
\* the CLI is not running
CliIdle ==
  [pc |-> "off", command |-> "", resource |-> "", results |-> <<>>, outcomes |-> <<>>,
   interrupted |-> FALSE, code |-> -1]

VARIABLES
  module,           \* the server module the process has loaded
  credentials,      \* whether the SDK can locate AWS credentials
  bucket,           \* the provider's listing pages for the bucket being deleted
  cli,              \* MCPServerCLI.run: position, arguments, check results, exit code
  session,          \* aws_clients._session: NoSession or the n-th Session object
  clients,          \* aws_clients._clients: key -> handle
  pc,               \* per thread: position in get_client / get_session / the tool
  caller,           \* per thread: "get_client" (a direct call) or the running tool
  svc, reg,         \* per thread: the service_name and region arguments
  req,              \* per thread: the tool's request argument(s)
  handle,           \* per thread: the client built, then the client returned
  exc,              \* per thread: the exception that ended the call, or NoExc
  origin,           \* per thread: where exc was raised: "get_session", "get_client", "provider"
  cause,            \* per thread: the fault the SDK raised, before get_session wrapped it
  result,           \* per thread: the envelope the tool returned, or NoResult
  escaped,          \* per thread: the tool ended by an exception reaching the host
  remote,           \* per thread: the provider calls the tool has issued, in order
  resp,             \* per thread: the response to the tool's first provider call
  calls,            \* invocations started so far
  sessionsCreated,  \* boto3.Session() objects constructed so far
  identityLog,      \* one entry per identity check of get_session: the call and outcome
  built,            \* (service, region) -> clients constructed for the pair so far
  returned          \* the returns of direct get_client calls, in order: (service, region, handle)

vars ==
  <<module, credentials, bucket, cli, session, clients, pc, caller, svc, reg, req, handle, exc,
    origin, cause, result, escaped, remote, resp, calls, sessionsCreated, identityLog,
    built, returned>>

setup == <<module, credentials, bucket, cli>>
registry == <<session, clients>>
history == <<sessionsCreated, identityLog, built, returned>>
args == <<caller, svc, reg, req>>
outcome == <<exc, origin, cause, result, escaped>>
progress == <<remote, resp>>
locals == <<args, handle, outcome, progress>>

\* the state after import, before any call
Fresh ==
  /\ credentials \in BOOLEAN
  /\ cli = CliIdle
  /\ session = NoSession
  /\ clients = [k \in {} |-> NoHandle]
  /\ pc = [t \in Threads |-> "idle"]
  /\ caller = [t \in Threads |-> ""]
  /\ svc = [t \in Threads |-> ""]
  /\ reg = [t \in Threads |-> ""]
  /\ req = [t \in Threads |-> NoRequest]
  /\ handle = [t \in Threads |-> NoHandle]
  /\ exc = [t \in Threads |-> NoExc]
  /\ origin = [t \in Threads |-> ""]
  /\ cause = [t \in Threads |-> NoExc]
  /\ result = [t \in Threads |-> NoResult]
  /\ escaped = [t \in Threads |-> FALSE]
  /\ remote = [t \in Threads |-> <<>>]
  /\ resp = [t \in Threads |-> NoResponse]
  /\ calls = 0
  /\ sessionsCreated = 0
  /\ identityLog = <<>>
  /\ built = [p \in AllServices \X AllRegions |-> 0]
  /\ returned = <<>>

\* the process runs server.py
Init == module = "server" /\ bucket = NoBucket /\ Fresh

\* the process runs server.py with credentials configured
ConcInit == Init /\ credentials

\* the process runs server.py or server_backup.py
ToolInit == module \in Modules /\ bucket = NoBucket /\ Fresh

\* thread t moves to position p
Goto(t, p) == pc' = [pc EXCEPT ![t] = p]

\* an invocation starts: the locals of the previous one are gone
Enter(t, who, service_name, region, request) ==
  /\ pc[t] = "idle"
  /\ calls < MaxCalls
  /\ calls' = calls + 1
  /\ caller' = [caller EXCEPT ![t] = who]
  /\ svc' = [svc EXCEPT ![t] = service_name]
  /\ reg' = [reg EXCEPT ![t] = region]
  /\ req' = [req EXCEPT ![t] = request]
  /\ handle' = [handle EXCEPT ![t] = NoHandle]
  /\ exc' = [exc EXCEPT ![t] = NoExc]
  /\ origin' = [origin EXCEPT ![t] = ""]
  /\ cause' = [cause EXCEPT ![t] = NoExc]
  /\ result' = [result EXCEPT ![t] = NoResult]
  /\ escaped' = [escaped EXCEPT ![t] = FALSE]
  /\ remote' = [remote EXCEPT ![t] = <<>>]
  /\ resp' = [resp EXCEPT ![t] = NoResponse]
  /\ Goto(t, "gc_lookup")
  /\ UNCHANGED <<setup, registry, history>>

\* a caller invokes aws_clients.get_client(service_name, region) directly
CallGetClient(t, service_name, region) ==
  Enter(t, "get_client", service_name, region, NoRequest)

\* the host invokes a tool of server.py; its first statement is
\* aws_clients.get_client(...)
CallTool(t, tool, region, request) ==
  /\ module = "server"
  /\ Enter(t, tool, ToolService(tool), ToolRegion(tool, region), request)

\* the host invokes a tool of server_backup.py
CallBackupTool(t, tool, region, request) ==
  /\ module = "server_backup"
  /\ Enter(t, tool, BackupToolService(tool), region, request)

\* whether the body of the tool is inside a try statement
HasTry(tool) == module = "server" \/ tool = "launch_ec2_instance"

\* the value the tool's except clause returns for exception e
ExceptEnvelope(tool, e) ==
  IF module = "server" THEN handle_aws_error_inline(tool, e)
  ELSE launch_ec2_instance_except(e)

\* mutant: after a fault the invocation starts over from get_client
Raise_Retry(t, e, where, original) ==
  /\ exc' = [exc EXCEPT ![t] = e]
  /\ origin' = [origin EXCEPT ![t] = where]
  /\ cause' = [cause EXCEPT ![t] = original]
  /\ UNCHANGED <<result, escaped>>
  /\ Goto(t, "gc_lookup")

\* exception e, raised by the SDK as fault original, leaves get_client (or the
\* provider call) in thread t: a direct caller sees it; in a tool the except
\* clause, where there is one, turns it into an envelope; otherwise it
\* leaves the tool too
Raise(t, e, where, original) ==
  /\ exc' = [exc EXCEPT ![t] = e]
  /\ origin' = [origin EXCEPT ![t] = where]
  /\ cause' = [cause EXCEPT ![t] = original]
  /\ result' = [result EXCEPT ![t] =
                  IF caller[t] # "get_client" /\ HasTry(caller[t])
                  THEN ExceptEnvelope(caller[t], e)
                  ELSE NoResult]
  /\ escaped' = [escaped EXCEPT ![t] = caller[t] # "get_client" /\ ~HasTry(caller[t])]
  /\ Goto(t, "idle")

\* mutant: the cache test always misses
Lookup_AlwaysMiss(t) ==
  /\ pc[t] = "gc_lookup"
  /\ Goto(t, "gs_test")
  /\ UNCHANGED <<setup, registry, history, locals, calls>>

\* get_client: `if key not in self._clients`
Lookup(t) ==
  /\ pc[t] = "gc_lookup"
  /\ IF ClientKey(svc[t], reg[t]) \in DOMAIN clients
     THEN Goto(t, "gc_return")
     ELSE Goto(t, "gs_test")
  /\ UNCHANGED <<setup, registry, history, locals, calls>>

\* get_session: `if not self._session`
TestSession(t) ==
  /\ pc[t] = "gs_test"
  /\ IF session = NoSession THEN Goto(t, "gs_new") ELSE Goto(t, "gc_build")
  /\ UNCHANGED <<setup, registry, history, locals, calls>>

\* get_session: `self._session = boto3.Session()`
NewSession(t) ==
  /\ pc[t] = "gs_new"
  /\ \/ /\ sessionsCreated' = sessionsCreated + 1
        /\ session' = sessionsCreated + 1
        /\ Goto(t, "gs_sts")
        /\ UNCHANGED <<setup, clients, identityLog, built, returned, locals, calls>>
     \/ \E e \in SessionFaults :
          /\ Raise(t, get_session_except(e), "get_session", e)
          /\ UNCHANGED <<setup, registry, history, args, handle, progress, calls>>

\* get_session: `sts = self._session.client('sts')`
StsClient(t) ==
  /\ pc[t] = "gs_sts"
  /\ \/ /\ Goto(t, "gs_identity")
        /\ UNCHANGED <<setup, registry, history, locals, calls>>
     \/ \E e \in ClientFaults :
          /\ Raise(t, get_session_except(e), "get_session", e)
          /\ UNCHANGED <<setup, registry, history, args, handle, progress, calls>>

\* get_session: `sts.get_caller_identity()`, the credential identity check;
\* without credentials the SDK raises NoCredentialsError when it signs the call
IdentityCheck(t) ==
  /\ pc[t] = "gs_identity"
  /\ \/ /\ credentials
        /\ identityLog' = Append(identityLog, [call |-> calls, ok |-> TRUE])
        /\ Goto(t, "gc_build")
        /\ UNCHANGED <<setup, registry, sessionsCreated, built, returned, locals, calls>>
     \/ \E e \in IdentityFaults :
          /\ (e.type = "NoCredentialsError") <=> ~credentials
          /\ identityLog' = Append(identityLog, [call |-> calls, ok |-> FALSE])
          /\ Raise(t, get_session_except(e), "get_session", e)
          /\ UNCHANGED <<setup, registry, sessionsCreated, built, returned, args, handle,
                         progress, calls>>

\* get_client: `session.client(service_name, region_name=region)`
BuildClient(t) ==
  /\ pc[t] = "gc_build"
  /\ \/ /\ built' = [built EXCEPT ![<<svc[t], reg[t]>>] = @ + 1]
        /\ handle' = [handle EXCEPT ![t] =
                        Handle(svc[t], reg[t], built[<<svc[t], reg[t]>>] + 1)]
        /\ Goto(t, "gc_store")
        /\ UNCHANGED <<setup, registry, sessionsCreated, identityLog, returned, args,
                       outcome, progress, calls>>
     \/ \E e \in ClientFaults :
          /\ Raise(t, e, "get_client", e)
          /\ UNCHANGED <<setup, registry, history, args, handle, progress, calls>>

\* mutant: the store rebinds the cache to a map holding the new entry only
StoreClient_Rebind(t) ==
  /\ pc[t] = "gc_store"
  /\ clients' = [k \in {ClientKey(svc[t], reg[t])} |-> handle[t]]
  /\ Goto(t, "gc_return")
  /\ UNCHANGED <<setup, session, history, locals, calls>>

\* get_client: `self._clients[key] = ...`
StoreClient(t) ==
  /\ pc[t] = "gc_store"
  /\ clients' = [k \in DOMAIN clients \cup {ClientKey(svc[t], reg[t])} |->
                   IF k = ClientKey(svc[t], reg[t]) THEN handle[t] ELSE clients[k]]
  /\ Goto(t, "gc_return")
  /\ UNCHANGED <<setup, session, history, locals, calls>>

\* the tool's statement after `aws_clients.get_client(...)` returned
ToolEntry(tool) == IF tool = "delete_s3_bucket" THEN "del_begin" ELSE "tool_invoke"

\* get_client: `return self._clients[key]`
ReturnClient(t) ==
  /\ pc[t] = "gc_return"
  /\ handle' = [handle EXCEPT ![t] = clients[ClientKey(svc[t], reg[t])]]
  /\ IF caller[t] = "get_client"
     THEN /\ returned' = Append(returned,
                 [service |-> svc[t], region |-> reg[t],
                  handle |-> clients[ClientKey(svc[t], reg[t])]])
          /\ Goto(t, "idle")
     ELSE /\ returned' = returned
          /\ Goto(t, ToolEntry(caller[t]))
  /\ UNCHANGED <<setup, registry, sessionsCreated, identityLog, built, args, outcome,
                 progress, calls>>

\* thread t issues the provider call on the client it holds; the call
\* returns (e = NoExc) or raises e
Issue(t, call, e) ==
  remote' = [remote EXCEPT ![t] =
               Append(@, [op |-> call.op, params |-> call.params,
                          client |-> handle[t], error |-> e])]

\* what a provider call through client method op may raise
ProviderFaults(op) ==
  IF credentials THEN ClientErrors(ApiOperation(op)) \cup OtherErrors
  ELSE {NoCredentials}

\* the value the tool returns once its provider calls are done
ToolEnvelope(tool, request, region, response) ==
  IF module = "server" THEN SuccessEnvelope(tool, response)
  ELSE BackupEnvelope(tool, request, region, response)

\* the tool's first provider call on the client it obtained; the tool returns
\* when no further call follows
InvokeProvider(t) ==
  /\ pc[t] = "tool_invoke"
  /\ LET call == FirstCall(caller[t], req[t], reg[t]) IN
       \/ /\ credentials
          /\ Issue(t, call, NoExc)
          /\ \E response \in ProviderResponses(caller[t], call) :
               /\ resp' = [resp EXCEPT ![t] = response]
               /\ IF LaterCalls(caller[t], req[t], response) = <<>>
                  THEN /\ result' = [result EXCEPT ![t] =
                              ToolEnvelope(caller[t], req[t], reg[t], response)]
                       /\ Goto(t, "idle")
                  ELSE /\ result' = result
                       /\ Goto(t, "tool_later")
          /\ UNCHANGED <<setup, registry, history, args, handle, exc, origin, cause,
                         escaped, calls>>
       \/ \E e \in ProviderFaults(call.op) :
            /\ Issue(t, call, e)
            /\ Raise(t, e, "provider", e)
            /\ UNCHANGED <<setup, registry, history, args, handle, resp, calls>>

\* the tool's next provider call after the first; the tool returns after the
\* last one
LaterCall(t) ==
  /\ pc[t] = "tool_later"
  /\ LET later == LaterCalls(caller[t], req[t], resp[t])
         call == later[Len(remote[t])]
     IN
       \/ /\ credentials
          /\ Issue(t, call, NoExc)
          /\ IF Len(remote[t]) = Len(later)
             THEN /\ result' = [result EXCEPT ![t] =
                         ToolEnvelope(caller[t], req[t], reg[t], resp[t])]
                  /\ Goto(t, "idle")
             ELSE /\ result' = result
                  /\ Goto(t, "tool_later")
          /\ UNCHANGED <<setup, registry, history, args, handle, exc, origin, cause,
                         escaped, resp, calls>>
       \/ \E e \in ProviderFaults(call.op) :
            /\ Issue(t, call, e)
            /\ Raise(t, e, "provider", e)
            /\ UNCHANGED <<setup, registry, history, args, handle, resp, calls>>

\* one step of thread t inside get_client
GetClientStep(t) ==
  \/ Lookup(t)
  \/ TestSession(t)
  \/ NewSession(t)
  \/ StsClient(t)
  \/ IdentityCheck(t)
  \/ BuildClient(t)
  \/ StoreClient(t)
  \/ ReturnClient(t)

\* one step of thread t inside an invocation
Step(t) == GetClientStep(t) \/ InvokeProvider(t)

\* one step of thread t inside a tool that may make several provider calls
ToolStep(t) == Step(t) \/ LaterCall(t)

\* one caller at a time, server.py
Next ==
  \/ \E service_name \in Services, region \in Regions :
       CallGetClient(1, service_name, region)
  \/ \E tool \in Tools, region \in Regions :
       \E request \in DefaultRequests(tool) : CallTool(1, tool, region, request)
  \/ Step(1)

Spec == Init /\ [][Next]_vars

\* one caller at a time, the tools of either module
ToolNext ==
  \/ /\ calls < MaxToolCalls
     /\ \E tool \in Tools, region \in Regions :
          \E request \in Requests(tool) : CallTool(1, tool, region, request)
  \/ /\ calls < MaxToolCalls
     /\ \E tool \in BackupTools, region \in BackupRegions :
          \E request \in Requests(tool) : CallBackupTool(1, tool, region, request)
  \/ ToolStep(1)

ToolSpec == ToolInit /\ [][ToolNext]_vars

\* several host threads, interleaved between statements
ConcNext ==
  \/ \E t \in Threads, service_name \in ConcServices, region \in ConcRegions :
       CallGetClient(t, service_name, region)
  \/ \E t \in Threads, tool \in ConcTools, region \in ConcRegions :
       \E request \in DefaultRequests(tool) : CallTool(t, tool, region, request)
  \/ \E t \in Threads : Step(t)

ConcSpec == ConcInit /\ [][ConcNext]_vars

(* ------------------- server_backup.py: delete_s3_bucket ---------------- *)

\* the arguments of delete_s3_bucket
DeleteRequests == [bucket_name : {"test-bucket"}, force : BOOLEAN]

\* a page of list_objects_v2: the Contents key is missing when the page
\* holds no object
ObjectsPage(keys) ==
  IF keys = <<>> THEN [KeyCount |-> 0]
  ELSE [KeyCount |-> Len(keys), Contents |-> [i \in 1..Len(keys) |-> [Key |-> keys[i]]]]

\* the pages the list_objects_v2 paginator may yield
ObjectListings ==
  {<<ObjectsPage(<<>>)>>,
   <<ObjectsPage(<<"a.txt", "b.txt">>)>>,
   <<ObjectsPage(<<"a.txt", "b.txt">>), ObjectsPage(<<"c.txt">>)>>}

Version(key, id) == [Key |-> key, VersionId |-> id, IsLatest |-> FALSE]

\* the pages the list_object_versions paginator may yield: Versions and
\* DeleteMarkers are each missing when the page holds none
VersionListings ==
  {<<[IsTruncated |-> FALSE]>>,
   <<[IsTruncated |-> FALSE,
      Versions |-> <<Version("a.txt", "v1")>>,
      DeleteMarkers |-> <<Version("b.txt", "v2")>>]>>,
   <<[IsTruncated |-> TRUE, Versions |-> <<Version("a.txt", "v1")>>],
     [IsTruncated |-> FALSE, DeleteMarkers |-> <<Version("b.txt", "v2")>>]>>}

Buckets == [objects : ObjectListings, versions : VersionListings]

\* what a call on the bucket may raise: the bucket may also be gone
BucketFaults(op) ==
  IF credentials
  THEN ProviderFaults(op)
         \cup {ClientError("NoSuchBucket", "The specified bucket does not exist",
                           ApiOperation(op))}
  ELSE ProviderFaults(op)

\* `[{'Key': obj['Key']} for obj in page['Contents']]`
object_keys(page) ==
  [i \in 1..Len(page.Contents) |-> [Key |-> page.Contents[i].Key]]

\* `{'Key': obj['Key'], 'VersionId': obj['VersionId']}` for each entry
version_keys(entries) ==
  [i \in 1..Len(entries) |-> [Key |-> entries[i].Key, VersionId |-> entries[i].VersionId]]

\* the objects list built from a page of list_object_versions
version_objects(page) ==
  (IF "Versions" \in DOMAIN page THEN version_keys(page.Versions) ELSE <<>>)
    \o (IF "DeleteMarkers" \in DOMAIN page THEN version_keys(page.DeleteMarkers) ELSE <<>>)

\* mutant: the bucket is emptied whatever force says
DeleteEntry_AlwaysEmpty(request) == "del_list_objects"

\* `if force:` -- where the tool continues once it holds the client
DeleteEntry(request) == IF request.force THEN "del_list_objects" ELSE "del_bucket"

\* mutant: every ClientError raised while emptying is swallowed
Swallowed_AnyClientError(e) == IsClientError(e)

\* `except ClientError as e: if e.response['Error']['Code'] != 'NoSuchBucket': raise`
Swallowed(e) == IsClientError(e) /\ e.code = "NoSuchBucket"

\* the pages of the listing op the invocation has fetched so far
Fetched(t, op) ==
  Cardinality({i \in 1..Len(remote[t]) : remote[t][i].op = op /\ remote[t][i].error = NoExc})

\* a call inside the try block raised e: the except clause swallows it and
\* the tool goes on to delete_bucket, or the exception leaves the tool
EmptyingRaised(t, call, e) ==
  /\ Issue(t, call, e)
  /\ IF Swallowed(e)
     THEN /\ Goto(t, "del_bucket")
          /\ UNCHANGED outcome
     ELSE Raise(t, e, "provider", e)
  /\ UNCHANGED <<setup, registry, history, args, handle, resp, calls>>

\* a call inside the try block returned; the tool goes on at position next
EmptyingReturned(t, call, next) ==
  /\ credentials
  /\ Issue(t, call, NoExc)
  /\ Goto(t, next)
  /\ UNCHANGED <<setup, registry, history, args, handle, outcome, resp, calls>>

\* delete_s3_bucket: `if force:`
DeleteBegin(t) ==
  /\ pc[t] = "del_begin"
  /\ Goto(t, DeleteEntry(req[t]))
  /\ UNCHANGED <<setup, registry, history, args, handle, outcome, progress, calls>>

\* the position after the n-th page of the objects listing is done with
AfterObjectsPage(n) ==
  IF n < Len(bucket.objects) THEN "del_list_objects" ELSE "del_list_versions"

\* the position after the n-th page of the versions listing is done with
AfterVersionsPage(n) ==
  IF n < Len(bucket.versions) THEN "del_list_versions" ELSE "del_bucket"

\* the list_objects_v2 paginator fetches its next page
ListObjects(t) ==
  /\ pc[t] = "del_list_objects"
  /\ LET call == Call("list_objects_v2", [Bucket |-> req[t].bucket_name])
         n == Fetched(t, "list_objects_v2") + 1
     IN
       \/ EmptyingReturned(t, call,
                           IF "Contents" \in DOMAIN bucket.objects[n]
                           THEN "del_delete_objects" ELSE AfterObjectsPage(n))
       \/ \E e \in BucketFaults(call.op) : EmptyingRaised(t, call, e)

\* `s3.delete_objects(...)` for the page of objects just fetched
DeleteObjects(t) ==
  /\ pc[t] = "del_delete_objects"
  /\ LET n == Fetched(t, "list_objects_v2")
         call == Call("delete_objects",
                      [Bucket |-> req[t].bucket_name,
                       Delete |-> [Objects |-> object_keys(bucket.objects[n])]])
     IN
       \/ EmptyingReturned(t, call, AfterObjectsPage(n))
       \/ \E e \in BucketFaults(call.op) : EmptyingRaised(t, call, e)

\* the list_object_versions paginator fetches its next page
ListVersions(t) ==
  /\ pc[t] = "del_list_versions"
  /\ LET call == Call("list_object_versions", [Bucket |-> req[t].bucket_name])
         n == Fetched(t, "list_object_versions") + 1
     IN
       \/ EmptyingReturned(t, call,
                           IF version_objects(bucket.versions[n]) # <<>>
                           THEN "del_delete_versions" ELSE AfterVersionsPage(n))
       \/ \E e \in BucketFaults(call.op) : EmptyingRaised(t, call, e)

\* `s3.delete_objects(...)` for the page of versions and delete markers
DeleteVersions(t) ==
  /\ pc[t] = "del_delete_versions"
  /\ LET n == Fetched(t, "list_object_versions")
         call == Call("delete_objects",
                      [Bucket |-> req[t].bucket_name,
                       Delete |-> [Objects |-> version_objects(bucket.versions[n])]])
     IN
       \/ EmptyingReturned(t, call, AfterVersionsPage(n))
       \/ \E e \in BucketFaults(call.op) : EmptyingRaised(t, call, e)

\* `s3.delete_bucket(Bucket=bucket_name)` and the return statement
DeleteBucket(t) ==
  /\ pc[t] = "del_bucket"
  /\ LET call == Call("delete_bucket", [Bucket |-> req[t].bucket_name]) IN
       \/ /\ credentials
          /\ Issue(t, call, NoExc)
          /\ result' = [result EXCEPT ![t] =
                          [success |-> TRUE,
                           message |-> "Bucket " \o req[t].bucket_name
                                         \o " deleted successfully"]]
          /\ Goto(t, "idle")
          /\ UNCHANGED <<setup, registry, history, args, handle, exc, origin, cause,
                         escaped, resp, calls>>
       \/ \E e \in BucketFaults(call.op) :
            /\ Issue(t, call, e)
            /\ Raise(t, e, "provider", e)
            /\ UNCHANGED <<setup, registry, history, args, handle, resp, calls>>

\* one step of thread t inside delete_s3_bucket
DeleteStep(t) ==
  \/ DeleteBegin(t)
  \/ ListObjects(t)
  \/ DeleteObjects(t)
  \/ ListVersions(t)
  \/ DeleteVersions(t)
  \/ DeleteBucket(t)

\* server_backup.py is loaded; the provider holds some bucket
DeleteInit == module = "server_backup" /\ bucket \in Buckets /\ Fresh

DeleteNext ==
  \/ /\ calls < MaxToolCalls
     /\ \E region \in BackupRegions, request \in DeleteRequests :
          CallBackupTool(1, "delete_s3_bucket", region, request)
  \/ GetClientStep(1)
  \/ DeleteStep(1)

DeleteSpec == DeleteInit /\ [][DeleteNext]_vars

(* ------------------------------ cli.py --------------------------------- *)

\* the first positional argument: none, a subcommand, or an unknown word
CliCommands == {None, "test-connection", "health-check", "list", "create", "deploy"}

\* the resource subcommands of `list` and of `create`
ListResources ==
  {"ec2", "vpcs", "s3", "lambda", "iam-roles", "cloudformation", "regions",
   "availability-zones"}
CreateResources == {"vpc", "ec2", "s3"}

\* the second positional argument: none, a resource subcommand, or an unknown word
CliResources(command) ==
  CASE command = "list" -> {None, "volumes"} \cup ListResources
    [] command = "create" -> {None, "volumes"} \cup CreateResources
    [] OTHER -> {None}

\* parse_args accepts the arguments (it exits the process otherwise)
Parses(command, resource) ==
  /\ command # "deploy"
  /\ resource # "volumes"

\* _health_check: the checks list
checks ==
  <<<<"AWS Connection", "get_caller_identity">>,
    <<"List Regions", "get_aws_regions">>,
    <<"List Availability Zones", "get_availability_zones">>,
    <<"List EC2 Instances", "list_ec2_instances">>,
    <<"List VPCs", "list_vpcs">>,
    <<"List S3 Buckets", "list_s3_buckets">>>>

\* _list_resources: the function called for each resource
ListTool(resource) ==
  CASE resource = "ec2" -> "list_ec2_instances"
    [] resource = "vpcs" -> "list_vpcs"
    [] resource = "s3" -> "list_s3_buckets"
    [] resource = "lambda" -> "list_lambda_functions"
    [] resource = "iam-roles" -> "list_iam_roles"
    [] resource = "cloudformation" -> "list_cloudformation_stacks"
    [] resource = "regions" -> "get_aws_regions"
    [] resource = "availability-zones" -> "get_availability_zones"

\* _create_resources: the function called for each resource
CreateTool(resource) ==
  CASE resource = "vpc" -> "create_vpc"
    [] resource = "ec2" -> "launch_ec2_instance"
    [] resource = "s3" -> "create_s3_bucket"

\* how a call of an imported function ends
Returned(tool, value) == [tool |-> tool, raised |-> FALSE, value |-> value]
Raised(tool, e) == [tool |-> tool, raised |-> TRUE, value |-> e]

\* the success envelope a function returns to the CLI
CliSuccess(tool) ==
  IF tool = "get_caller_identity"
  THEN [success |-> TRUE,
        identity |-> [Account |-> "123456789012",
                      Arn |-> "arn:aws:iam::123456789012:user/test-user"]]
  ELSE [success |-> TRUE]

\* what a call of an imported function may do: return a success envelope,
\* return an error envelope, or raise; get_aws_regions of server.py takes no
\* argument, and the CLI passes it one
ToolOutcomes(tool) ==
  {Returned(tool, CliSuccess(tool)),
   Returned(tool, handle_aws_error_inline(tool,
                    ClientError("AccessDenied",
                                "User is not authorized to perform this action", tool))),
   Raised(tool, OtherError("Exception", "Network timeout"))}
    \cup (IF tool = "get_aws_regions"
          THEN {Raised(tool, OtherError("TypeError",
                  "get_aws_regions() takes 0 positional arguments but 1 was given"))}
          ELSE {})

\* dict.get(key, default)
Get(d, key, default) == IF key \in DOMAIN d THEN d[key] ELSE default

\* everything but the CLI's own state
serverVars ==
  <<module, credentials, bucket, registry, history, locals, calls, pc>>

\* the CLI returns (or exits with) code
CliEnd(p, code) == [cli EXCEPT !.pc = p, !.code = code]

\* run: parse_args and the dispatch on parsed_args.command
CliRun(command, resource) ==
  /\ cli.pc = "off"
  /\ cli' =
       IF ~Parses(command, resource)
       THEN [cli EXCEPT !.pc = "exited", !.command = command, !.resource = resource,
                        !.code = 2]
       ELSE [cli EXCEPT !.command = command, !.resource = resource,
                        !.pc = CASE command = "test-connection" -> "test_connection"
                                 [] command = "health-check" -> "health_check"
                                 [] command = "list" -> "list"
                                 [] command = "create" -> "create"
                                 [] OTHER -> "done",
                        !.code = IF command = None THEN 1 ELSE -1]
  /\ UNCHANGED serverVars

\* run: `except KeyboardInterrupt`, raised while a subcommand runs
Interrupt ==
  /\ cli.pc \in {"test_connection", "health_check", "list", "create"}
  /\ cli' = [cli EXCEPT !.pc = "done", !.code = 1, !.interrupted = TRUE]
  /\ UNCHANGED serverVars

\* `result.get('success')` as a condition
Succeeded(value) == Get(value, "success", FALSE)

\* _test_connection
TestConnection ==
  /\ cli.pc = "test_connection"
  /\ \E o \in ToolOutcomes("get_caller_identity") :
       cli' = [CliEnd("done",
                      IF ~o.raised /\ Succeeded(o.value) /\ "identity" \in DOMAIN o.value
                      THEN 0 ELSE 1)
                 EXCEPT !.outcomes = Append(@, o)]
  /\ UNCHANGED serverVars

\* the entry _health_check appends to results for a check that ended as o
CheckResult(check_name, o) ==
  IF o.raised THEN <<check_name, FALSE, Str(o.value)>>
  ELSE <<check_name, Succeeded(o.value), Get(o.value, "error_message", None)>>

\* `sum(1 for _, success, _ in results if success)`
Successful(results) == Cardinality({i \in 1..Len(results) : results[i][2]})

\* mutant: the loop ends at the first check that did not succeed
LoopEnds_AtFailure(results) ==
  Len(results) = Len(checks) \/ ~results[Len(results)][2]

\* the for loop over checks is exhausted
LoopEnds(results) == Len(results) = Len(checks)

\* _health_check: the next check of the loop; after the last one, the summary
\* and the return
HealthCheck ==
  /\ cli.pc = "health_check"
  /\ LET check == checks[Len(cli.results) + 1] IN
       \E o \in ToolOutcomes(check[2]) :
         LET results == Append(cli.results, CheckResult(check[1], o)) IN
           cli' = [(IF LoopEnds(results)
                    THEN CliEnd("done",
                                IF Successful(results) = Len(results) THEN 0 ELSE 1)
                    ELSE cli)
                     EXCEPT !.results = results, !.outcomes = Append(@, o)]
  /\ UNCHANGED serverVars

\* _list_resources
ListResourcesCmd ==
  /\ cli.pc = "list"
  /\ IF cli.resource = None
     THEN cli' = CliEnd("done", 1)
     ELSE \E o \in ToolOutcomes(ListTool(cli.resource)) :
            cli' = [CliEnd("done", IF o.raised THEN 1 ELSE 0)
                      EXCEPT !.outcomes = Append(@, o)]
  /\ UNCHANGED serverVars

\* _create_resources
CreateResourcesCmd ==
  /\ cli.pc = "create"
  /\ IF cli.resource = None
     THEN cli' = CliEnd("done", 1)
     ELSE \E o \in ToolOutcomes(CreateTool(cli.resource)) :
            cli' = [CliEnd("done", IF ~o.raised /\ Succeeded(o.value) THEN 0 ELSE 1)
                      EXCEPT !.outcomes = Append(@, o)]
  /\ UNCHANGED serverVars

\* the process imported cli.py; run has not been called
CliInit == module = "server" /\ bucket = NoBucket /\ Fresh

CliNext ==
  \/ \E command \in CliCommands : \E resource \in CliResources(command) :
       CliRun(command, resource)
  \/ Interrupt
  \/ TestConnection
  \/ HealthCheck
  \/ ListResourcesCmd
  \/ CreateResourcesCmd

CliSpec == CliInit /\ [][CliNext]_vars

(* ------------------------------- claims -------------------------------- *)
\* a direct get_client call of thread t has ended (returned or raised)
\* or a tool call of thread t has returned its envelope
Finished(t) == pc[t] = "idle" /\ caller[t] # ""
ToolReturned(t) == Finished(t) /\ caller[t] \in Tools

IsSuccessEnvelope(env) ==
  /\ "success" \in DOMAIN env
  /\ env.success = TRUE
  /\ "error" \notin DOMAIN env

IsErrorEnvelope(env) ==
  /\ "error" \in DOMAIN env
  /\ env.error = TRUE
  /\ "error_message" \in DOMAIN env
  /\ "success" \notin DOMAIN env

SamePair(a, b) == a.service = b.service /\ a.region = b.region

\* C1: two get_client calls with the same (service, region) return the same
\* handle, and no (service, region) has its client constructed more than once
\* (nor the session more than once): the second call is a cache hit.
C1_SameHandleOneConstruction ==
  /\ \A i, j \in DOMAIN returned :
       SamePair(returned[i], returned[j]) => returned[i].handle = returned[j].handle
  /\ \A p \in DOMAIN built : built[p] <= 1
  /\ sessionsCreated <= 1

\* C1 witness: the same (service, region) was returned twice
C1_Witness ==
  \E i, j \in DOMAIN returned :
    /\ i < j
    /\ SamePair(returned[i], returned[j])
    /\ built[<<returned[i].service, returned[i].region>>] = 1

\* C2: calls whose (service, region) differ never share a handle, and every
\* handle returned by get_client(s, r) was constructed for service s and region r.
C2_DistinctPairsDistinctHandles ==
  /\ \A i, j \in DOMAIN returned :
       ~SamePair(returned[i], returned[j]) => returned[i].handle # returned[j].handle
  /\ \A i \in DOMAIN returned :
       /\ returned[i].handle.service = returned[i].service
       /\ returned[i].handle.region = returned[i].region

\* the first-ever invocation has ended
FirstCallOver == calls > 1 \/ (calls = 1 /\ \A t \in Threads : pc[t] = "idle")

\* C3: once the first-ever call has ended, the identity check has been
\* performed exactly once, and that was during the first call.
C3_IdentityCheckedOnceInFirstCall ==
  FirstCallOver => (Len(identityLog) = 1 /\ identityLog[1].call = 1)

\* C4: if the identity check failed during the first call, no handle is ever
\* constructed or cached, no get_client returns, and every tool call that has
\* returned gave an error envelope.
C4_FailedCheckBlocksEverything ==
  (\E i \in DOMAIN identityLog : identityLog[i].call = 1 /\ ~identityLog[i].ok)
    => /\ DOMAIN clients = {}
       /\ \A p \in DOMAIN built : built[p] = 0
       /\ returned = <<>>
       /\ \A t \in Threads : ToolReturned(t) => IsErrorEnvelope(result[t])

\* the pairs that share a cache key with pair p
KeyMates(p) == {q \in DOMAIN built : ClientKey(q[1], q[2]) = ClientKey(p[1], p[2])}

RECURSIVE SumBuilt(_)
SumBuilt(ps) ==
  IF ps = {} THEN 0
  ELSE LET p == CHOOSE q \in ps : TRUE IN built[p] + SumBuilt(ps \ {p})

\* C5: under concurrent callers at most one handle is constructed per key and
\* a stored cache entry is never overwritten by a second construction.
C5_OneConstructionPerKey ==
  [][/\ \A p \in DOMAIN built : SumBuilt(KeyMates(p))' <= 1
     /\ \A k \in DOMAIN clients : clients'[k] = clients[k]]_vars

InSessionInit(t) == pc[t] \in {"gs_new", "gs_sts", "gs_identity"}

\* C6: under concurrent callers the session is initialised at most once (one
\* Session, one identity check), and no caller constructs a client while
\* another caller's identity check is in progress or after a check failed.
C6_SessionInitOnce ==
  [][/\ sessionsCreated' <= 1
     /\ Len(identityLog') <= 1
     /\ \A t \in Threads :
          (pc[t] = "gc_build" /\ pc'[t] = "gc_store")
            => /\ \A i \in DOMAIN identityLog : identityLog[i].ok
               /\ \A u \in Threads \ {t} : ~InSessionInit(u)]_vars

\* C7: the cache only grows: a stored entry is never removed or replaced by
\* any later step (of get_client, of a tool, or a failure).
C7_CacheOnlyGrows ==
  [][\A k \in DOMAIN clients : k \in DOMAIN clients' /\ clients'[k] = clients[k]]_vars

\* C7 witness: with an entry cached, a later call has failed and another
\* key has been cached as well
C7_Witness ==
  /\ Cardinality(DOMAIN clients) >= 2
  /\ \E t \in Threads : Finished(t) /\ exc[t] # NoExc

\* C8: every envelope a tool returns is a success envelope or an error
\* envelope, never both and never neither.
C8_EnvelopeTwoStates ==
  \A t \in Threads :
    ToolReturned(t) =>
      /\ IsSuccessEnvelope(result[t]) \/ IsErrorEnvelope(result[t])
      /\ ~(IsSuccessEnvelope(result[t]) /\ IsErrorEnvelope(result[t]))
      /\ "success" \in DOMAIN result[t] \/ "error" \in DOMAIN result[t]
      /\ ~("success" \in DOMAIN result[t] /\ "error" \in DOMAIN result[t])

\* C8 witness: a tool returned an error envelope for a failed get_client
C8_Witness ==
  \E t \in Threads :
    ToolReturned(t) /\ origin[t] = "get_client" /\ IsErrorEnvelope(result[t])

\* C9: a classified fault raised by the tool's provider call is returned as
\* error=true with the fault's code and the fault's message, unchanged.
C9_ClassifiedFault ==
  \A t \in Threads :
    (ToolReturned(t) /\ origin[t] = "provider" /\ IsClientError(exc[t])) =>
      /\ IsErrorEnvelope(result[t])
      /\ "error_code" \in DOMAIN result[t]
      /\ result[t].error_code = exc[t].code
      /\ result[t].error_message = exc[t].message

\* C9 witness: a tool's provider call raised a ClientError
C9_Witness ==
  \E t \in Threads :
    /\ ToolReturned(t) /\ origin[t] = "provider" /\ IsClientError(exc[t])
    /\ result[t].error_code = "AccessDenied"

\* C10: an unclassified fault raised by the tool's provider call is returned
\* as error=true with the exception's text as error_message and no error_code.
C10_UnclassifiedFault ==
  \A t \in Threads :
    (ToolReturned(t) /\ origin[t] = "provider" /\ ~IsClientError(exc[t])) =>
      /\ IsErrorEnvelope(result[t])
      /\ result[t].error_message = exc[t].message
      /\ "error_code" \notin DOMAIN result[t]

\* C10 witness: a tool's provider call raised a plain exception
C10_Witness ==
  \E t \in Threads :
    /\ ToolReturned(t) /\ origin[t] = "provider" /\ ~IsClientError(exc[t])
    /\ result[t].error_message = "Network timeout"

\* a tool invocation of thread t has ended: the tool returned, or an
\* exception left it
ToolDone(t) == pc[t] = "idle" /\ caller[t] \notin {"", "get_client"}

\* C11: a tool invocation that met a fault (while obtaining the client or in
\* one of its remote calls) ends by returning an error envelope; no exception
\* reaches the tool's caller.
C11_FaultsCaughtAtToolBoundary ==
  \A t \in Threads :
    (ToolDone(t) /\ exc[t] # NoExc) =>
      /\ ~escaped[t]
      /\ IsErrorEnvelope(result[t])

\* C12: while no credentials can be located, every tool invocation returns
\* error=true with the fixed guidance message and no error_code (faults of
\* boto3.Session() and of client construction, which come before credentials
\* are looked at, set aside).
C12_NoCredentialsFixedMessage ==
  \A t \in Threads :
    (ToolReturned(t) /\ ~credentials /\ cause[t] \notin SessionFaults \cup ClientFaults) =>
      /\ IsErrorEnvelope(result[t])
      /\ result[t].error_message = CredentialsMessage
      /\ "error_code" \notin DOMAIN result[t]

\* C13: when session initialization fails for a reason other than missing
\* credentials, get_client raises an exception whose text is the session
\* error prefix followed by the text of the original fault, and the calling
\* tool returns error=true with that text as error_message and no error_code.
C13_SessionFaultWrapped ==
  \A t \in Threads :
    (Finished(t) /\ origin[t] = "get_session" /\ cause[t].type # "NoCredentialsError") =>
      /\ ~IsClientError(exc[t])
      /\ Str(exc[t]) = "Failed to initialize AWS session: " \o Str(cause[t])
      /\ caller[t] # "get_client" =>
           /\ IsErrorEnvelope(result[t])
           /\ result[t].error_message =
                "Failed to initialize AWS session: " \o Str(cause[t])
           /\ DOMAIN result[t] = {"error", "error_message"}

\* C13 witness: the identity check raised a classified provider fault inside
\* a tool, and the tool returned
C13_Witness ==
  \E t \in Threads :
    /\ ToolReturned(t) /\ origin[t] = "get_session"
    /\ IsClientError(cause[t]) /\ cause[t].code = "AccessDenied"
    /\ IsErrorEnvelope(result[t])

\* the tool invocation of thread t returned after get_client and every
\* provider call of the tool succeeded
AllSucceeded(t) == ToolDone(t) /\ exc[t] = NoExc

\* the instances a describe_instances response holds, reservation by reservation
RECURSIVE InstancesOf(_)
InstancesOf(reservations) ==
  IF reservations = <<>> THEN <<>>
  ELSE Head(reservations).Instances \o InstancesOf(Tail(reservations))

\* the payload key(s) of each tool
PayloadKeys(tool) ==
  CASE tool = "get_caller_identity" -> {"identity"}
    [] tool = "list_ec2_instances" -> {"instances", "count"}
    [] tool = "list_vpcs" -> {"vpcs"}
    [] tool = "list_s3_buckets" -> {"buckets", "owner"}
    [] tool = "list_rds_instances" -> {"db_instances"}
    [] tool = "list_lambda_functions" -> {"functions"}
    [] tool = "get_aws_regions" -> {"regions"}
    [] tool = "launch_ec2_instance" -> {"instances", "instance_ids"}
    [] tool = "terminate_ec2_instance" -> {"terminating_instances"}
    [] tool = "get_ec2_instance_details" -> {"instance"}
    [] tool = "create_vpc" -> {"vpc"}
    [] tool = "create_subnet" -> {"subnet"}
    [] tool = "add_security_group_rule" -> {"response"}
    [] tool = "create_s3_bucket" -> {"bucket_name"}

\* the payload of the envelope env comes from the provider response
PayloadFrom(tool, env, request, response) ==
  CASE tool = "get_caller_identity" -> env.identity = response
    [] tool = "list_ec2_instances" ->
         LET listed == InstancesOf(response.Reservations) IN
           /\ env.count = Len(listed)
           /\ Len(env.instances) = Len(listed)
           /\ \A i \in 1..Len(listed) :
                /\ env.instances[i].InstanceId = listed[i].InstanceId
                /\ env.instances[i].State = listed[i].State.Name
    [] tool = "list_vpcs" -> env.vpcs = response.Vpcs
    [] tool = "list_s3_buckets" ->
         env.buckets = response.Buckets /\ env.owner = response.Owner
    [] tool = "list_rds_instances" -> Len(env.db_instances) = Len(response.DBInstances)
    [] tool = "list_lambda_functions" -> env.functions = response.Functions
    [] tool = "get_aws_regions" -> env.regions = response.Regions
    [] tool = "launch_ec2_instance" ->
         /\ env.instances = response.Instances
         /\ Len(env.instance_ids) = Len(response.Instances)
         /\ \A i \in 1..Len(response.Instances) :
              env.instance_ids[i] = response.Instances[i].InstanceId
    [] tool = "terminate_ec2_instance" ->
         env.terminating_instances = response.TerminatingInstances
    [] tool = "get_ec2_instance_details" ->
         env.instance = response.Reservations[1].Instances[1]
    [] tool = "create_vpc" -> env.vpc = response.Vpc
    [] tool = "create_subnet" -> env.subnet = response.Subnet
    [] tool = "add_security_group_rule" -> env.response = response
    [] tool = "create_s3_bucket" -> env.bucket_name = request.bucket_name

\* get_ec2_instance_details got an answer without reservations
NotFound(t) ==
  /\ module = "server_backup"
  /\ caller[t] = "get_ec2_instance_details"
  /\ resp[t].Reservations = <<>>

Running(t, tool) == module = "server_backup" /\ caller[t] = tool

\* the positions in the invocation's provider calls at which op was called
CallsOf(t, op) == {i \in 1..Len(remote[t]) : remote[t][i].op = op}

\* the methods of the provider calls issued so far, in order
OpsOf(t) == [i \in 1..Len(remote[t]) |-> remote[t][i].op]

\* entries holds one {Key, Value} entry per pair of the tag map, in its order
OneEntryPerTag(entries, tags) ==
  /\ Len(entries) = Len(tags)
  /\ \A i \in 1..Len(tags) :
       /\ DOMAIN entries[i] = {"Key", "Value"}
       /\ entries[i].Key = tags[i][1]
       /\ entries[i].Value = tags[i][2]

\* a tag map was supplied and holds at least one pair
HasTags(request) == request.tags # Absent /\ Len(request.tags[1]) > 0

\* C15: create_vpc issues the create call at most once, first, with the
\* request's CIDR block; a tag step is issued at most once, after the create
\* call, on the created VPC's id, with one Key/Value entry per supplied pair;
\* when the tool returns normally the create call was issued, the envelope
\* has success=true and the created VPC's non-empty id, and the tag step was
\* issued exactly when tags were supplied.
C15_CreateVpcTags ==
  \A t \in Threads :
    Running(t, "create_vpc") =>
      /\ CallsOf(t, "create_vpc") \subseteq {1}
      /\ \A i \in CallsOf(t, "create_vpc") :
           remote[t][i].params = [CidrBlock |-> req[t].cidr_block]
      /\ Cardinality(CallsOf(t, "create_tags")) <= 1
      /\ \A j \in CallsOf(t, "create_tags") :
           /\ j > 1
           /\ HasTags(req[t])
           /\ DOMAIN remote[t][j].params = {"Resources", "Tags"}
           /\ remote[t][j].params.Resources = <<resp[t].Vpc.VpcId>>
           /\ OneEntryPerTag(remote[t][j].params.Tags, req[t].tags[1])
      /\ AllSucceeded(t) =>
           /\ CallsOf(t, "create_vpc") = {1}
           /\ IsSuccessEnvelope(result[t])
           /\ result[t].vpc.VpcId = resp[t].Vpc.VpcId
           /\ result[t].vpc.VpcId # ""
           /\ HasTags(req[t]) <=> Cardinality(CallsOf(t, "create_tags")) = 1

\* C15 witness: create_vpc with tags {Name: "x"} returned after tagging
C15_Witness ==
  \E t \in Threads :
    /\ Running(t, "create_vpc") /\ AllSucceeded(t)
    /\ req[t].tags = Some(<<<<"Name", "x">>>>)
    /\ CallsOf(t, "create_tags") # {}

\* C16: launch_ec2_instance issues run_instances at most once and first; a
\* create_tags call comes second, at most once, targets exactly the ids of
\* the launched instances and carries one Key/Value entry per supplied tag;
\* with a non-empty tag map and at least one launched instance a normal
\* return means both calls were issued, and instance_ids lists the launched
\* instances' ids in order.
C16_LaunchTags ==
  \A t \in Threads :
    Running(t, "launch_ec2_instance") =>
      /\ CallsOf(t, "run_instances") \subseteq {1}
      /\ CallsOf(t, "create_tags") \subseteq {2}
      /\ \A j \in CallsOf(t, "create_tags") :
           /\ HasTags(req[t])
           /\ DOMAIN remote[t][j].params = {"Resources", "Tags"}
           /\ Len(remote[t][j].params.Resources) = Len(resp[t].Instances)
           /\ \A i \in 1..Len(resp[t].Instances) :
                remote[t][j].params.Resources[i] = resp[t].Instances[i].InstanceId
           /\ OneEntryPerTag(remote[t][j].params.Tags, req[t].tags[1])
      /\ AllSucceeded(t) =>
           /\ CallsOf(t, "run_instances") = {1}
           /\ (HasTags(req[t]) /\ Len(resp[t].Instances) > 0) <=>
                CallsOf(t, "create_tags") = {2}
           /\ IsSuccessEnvelope(result[t])
           /\ Len(result[t].instance_ids) = Len(resp[t].Instances)
           /\ \A i \in 1..Len(resp[t].Instances) :
                result[t].instance_ids[i] = resp[t].Instances[i].InstanceId

\* C16 witness: two instances launched and tagged with two tags
C16_Witness ==
  \E t \in Threads :
    /\ Running(t, "launch_ec2_instance") /\ AllSucceeded(t)
    /\ Len(resp[t].Instances) = 2
    /\ HasTags(req[t]) /\ Len(req[t].tags[1]) = 2
    /\ CallsOf(t, "create_tags") = {2}

\* the provider calls create_s3_bucket is to issue for a request, in order
BucketSteps(request) ==
  <<"create_bucket">>
    \o (IF request.versioning THEN <<"put_bucket_versioning">> ELSE <<>>)
    \o (IF request.public_read_access THEN <<"put_bucket_policy">> ELSE <<>>)
    \o (IF HasTags(request) THEN <<"put_bucket_tagging">> ELSE <<>>)

\* C17: the provider calls of create_s3_bucket are, in order, create_bucket,
\* then put_bucket_versioning iff versioning is requested, put_bucket_policy
\* iff public read access is requested, put_bucket_tagging iff tags are
\* supplied, each once and each on the requested bucket name; a normal return
\* means all of them were issued and the envelope has success=true and the
\* requested bucket_name.
C17_BucketSteps ==
  \A t \in Threads :
    Running(t, "create_s3_bucket") =>
      /\ Len(remote[t]) <= Len(BucketSteps(req[t]))
      /\ OpsOf(t) = SubSeq(BucketSteps(req[t]), 1, Len(remote[t]))
      /\ \A i \in 1..Len(remote[t]) : remote[t][i].params.Bucket = req[t].bucket_name
      /\ AllSucceeded(t) =>
           /\ OpsOf(t) = BucketSteps(req[t])
           /\ IsSuccessEnvelope(result[t])
           /\ result[t].bucket_name = req[t].bucket_name

\* C17 witness: a bucket created with versioning, public read access and tags
C17_Witness ==
  \E t \in Threads :
    /\ Running(t, "create_s3_bucket") /\ AllSucceeded(t)
    /\ Len(remote[t]) = 4

\* the filters argument asks for instance-state-name = running
RunningOnly(request) ==
  /\ request.filters # Absent
  /\ \E i \in 1..Len(request.filters[1]) :
       request.filters[1][i] = <<"instance-state-name", <<"running">>>>

HasFilters(request) == request.filters # Absent /\ Len(request.filters[1]) > 0

\* C19: list_ec2_instances issues describe_instances at most once, exactly
\* once when get_client succeeded; the call carries a Filters parameter with
\* one {Name, Values} entry per supplied filter name, holding the supplied
\* values, and carries no Filters parameter when filters is absent or empty.
C19_FiltersPassed ==
  \A t \in Threads :
    caller[t] = "list_ec2_instances" =>
      /\ Len(remote[t]) <= 1
      /\ (ToolReturned(t) /\ origin[t] \notin {"get_session", "get_client"}) =>
           Len(remote[t]) = 1
      /\ \A c \in 1..Len(remote[t]) :
           /\ remote[t][c].op = "describe_instances"
           /\ IF HasFilters(req[t])
              THEN /\ DOMAIN remote[t][c].params = {"Filters"}
                   /\ Len(remote[t][c].params.Filters) = Len(req[t].filters[1])
                   /\ \A i \in 1..Len(req[t].filters[1]) :
                        /\ DOMAIN remote[t][c].params.Filters[i] = {"Name", "Values"}
                        /\ remote[t][c].params.Filters[i].Name = req[t].filters[1][i][1]
                        /\ remote[t][c].params.Filters[i].Values = req[t].filters[1][i][2]
              ELSE DOMAIN remote[t][c].params = {}

\* C19 witness: a listing with two filters returned
C19_Witness ==
  \E t \in Threads :
    /\ ToolReturned(t) /\ caller[t] = "list_ec2_instances"
    /\ HasFilters(req[t]) /\ Len(req[t].filters[1]) = 2
    /\ Len(remote[t]) = 1
    /\ IsSuccessEnvelope(result[t])

\* the optional request fields each tool maps to a provider parameter
OptionalFields(tool) ==
  CASE tool = "launch_ec2_instance" ->
         {<<"key_name", "KeyName">>, <<"security_group_ids", "SecurityGroupIds">>,
          <<"subnet_id", "SubnetId">>, <<"user_data", "UserData">>}
    [] tool = "add_security_group_rule" ->
         {<<"from_port", "FromPort">>, <<"to_port", "ToPort">>,
          <<"cidr_blocks", "CidrIp">>,
          <<"source_security_group_id", "SourceSecurityGroupId">>}
    [] tool = "create_s3_bucket" -> {<<"region", "CreateBucketConfiguration">>}
    [] OTHER -> {}

\* the optional field holds a value (for a list: at least one element)
Populated(request, field) ==
  IF field \in {"security_group_ids", "cidr_blocks"}
  THEN Truthy(request[field])
  ELSE IsNotNone(request[field])

\* C20: in the first provider call of launch_ec2_instance,
\* add_security_group_rule and create_s3_bucket, the parameter of every
\* populated optional request field is present and the parameter of every
\* absent optional field is omitted.
C20_OptionalFieldsMapped ==
  \A t \in Threads :
    (module = "server_backup" /\ Len(remote[t]) >= 1) =>
      \A fp \in OptionalFields(caller[t]) :
        Populated(req[t], fp[1]) <=> fp[2] \in DOMAIN remote[t][1].params

\* the provider calls a multi-step tool is to issue for a request, in order
StepsOf(tool, request) ==
  CASE tool = "create_vpc" ->
         <<"create_vpc">>
           \o (IF request.enable_dns_hostnames THEN <<"modify_vpc_attribute">> ELSE <<>>)
           \o (IF request.enable_dns_support THEN <<"modify_vpc_attribute">> ELSE <<>>)
           \o (IF HasTags(request) THEN <<"create_tags">> ELSE <<>>)
    [] tool = "create_subnet" ->
         <<"create_subnet">>
           \o (IF request.map_public_ip_on_launch
               THEN <<"modify_subnet_attribute">> ELSE <<>>)
           \o (IF HasTags(request) THEN <<"create_tags">> ELSE <<>>)

\* provider calls that would undo a create step
Compensations ==
  {"delete_vpc", "delete_subnet", "delete_tags", "terminate_instances", "delete_bucket"}

\* C21: create_vpc and create_subnet issue create, then the attribute
\* step(s), then the tag step, in that order, a step being issued only after
\* every earlier one returned; when a step after the create step fails, the
\* remaining steps are not issued and no compensating call is issued.
C21_StepsInOrderNoCompensation ==
  \A t \in Threads :
    (Running(t, "create_vpc") \/ Running(t, "create_subnet")) =>
      /\ Len(remote[t]) <= Len(StepsOf(caller[t], req[t]))
      /\ OpsOf(t) = SubSeq(StepsOf(caller[t], req[t]), 1, Len(remote[t]))
      /\ \A i \in 1..Len(remote[t]) :
           /\ remote[t][i].op \notin Compensations
           /\ remote[t][i].error # NoExc => i = Len(remote[t]) /\ pc[t] = "idle"
      /\ AllSucceeded(t) => OpsOf(t) = StepsOf(caller[t], req[t])

\* C21 witness: create_subnet's tag step failed after the create and the
\* attribute step succeeded, and the invocation ended there
C21_Witness ==
  \E t \in Threads :
    /\ Running(t, "create_subnet") /\ ToolDone(t)
    /\ OpsOf(t) = <<"create_subnet", "modify_subnet_attribute", "create_tags">>
    /\ remote[t][3].error # NoExc
    /\ remote[t][1].error = NoExc

\* the identity checks made during the invocation now running or last run
ChecksOfThisCall == {i \in 1..Len(identityLog) : identityLog[i].call = calls}

\* C22: a fault ends the invocation at once: nothing runs after it, so the
\* provider call that raised is the last one issued and is issued once, a
\* failed get_client is not attempted again (one identity check at most per
\* invocation), and the tool's envelope is the error envelope of that fault.
C22_NoRetry ==
  \A t \in Threads :
    /\ exc[t] # NoExc => pc[t] = "idle"
    /\ \A i \in 1..Len(remote[t]) :
         remote[t][i].error # NoExc =>
           /\ i = Len(remote[t])
           /\ exc[t] = remote[t][i].error
    /\ Cardinality(ChecksOfThisCall) <= 1
    /\ (exc[t] # NoExc /\ origin[t] # "provider") => remote[t] = <<>>
    /\ (ToolReturned(t) /\ exc[t] # NoExc) =>
         /\ IsErrorEnvelope(result[t])
         /\ result[t].error_message =
              (IF IsClientError(exc[t]) THEN exc[t].message ELSE Str(exc[t]))

\* C22 witness: a tool's provider call raised and the tool returned the
\* fault's envelope after that single call
C22_Witness ==
  \E t \in Threads :
    /\ ToolReturned(t) /\ origin[t] = "provider"
    /\ Len(remote[t]) = 1 /\ remote[t][1].error = exc[t]
    /\ exc[t].message = "Network timeout"

\* C23: a tool invoked for region R issues exactly one provider call, on a
\* client constructed for the tool's service and region R (so tools invoked
\* for two different regions never share a client), and its result is built
\* from the response to that call.
C23_CallsOnOwnRegionHandle ==
  \A t \in Threads :
    (ToolReturned(t) /\ origin[t] \notin {"get_session", "get_client"}) =>
      /\ Len(remote[t]) = 1
      /\ remote[t][1].client.service = svc[t]
      /\ remote[t][1].client.region = reg[t]
      /\ exc[t] = NoExc => result[t] = SuccessEnvelope(caller[t], resp[t])

\* C29: when get_client fails (in session creation, in the identity check or
\* in client construction), the registry is as it was before the call: the
\* key has no cache entry, a failure inside get_session (which runs only
\* when no session was held) leaves no session held, and a failure of the
\* first call leaves the registry empty.
C29_FailedGetClientLeavesRegistry ==
  \A t \in Threads :
    (exc[t] # NoExc /\ origin[t] \in {"get_session", "get_client"}) =>
      /\ ClientKey(svc[t], reg[t]) \notin DOMAIN clients
      /\ origin[t] = "get_session" => session = NoSession
      /\ calls = 1 => session = NoSession /\ DOMAIN clients = {}

\* C30: in launch_ec2_instance, when run_instances succeeded and the
\* create_tags call that follows faults, the tool returns the error envelope
\* of the tagging fault, without instances or instance_ids keys, and issues
\* no terminate call; create_tags is issued after a successful run_instances
\* exactly when the tag map is non-empty and an instance was launched.
TagFault(t) ==
  /\ Len(remote[t]) = 2
  /\ remote[t][1].op = "run_instances" /\ remote[t][1].error = NoExc
  /\ remote[t][2].op = "create_tags" /\ remote[t][2].error # NoExc

C30_TagFaultHidesLaunch ==
  \A t \in Threads :
    (ToolDone(t) /\ caller[t] = "launch_ec2_instance") =>
      /\ \A i \in 1..Len(remote[t]) :
           remote[t][i].op \in {"run_instances", "create_tags"}
      /\ TagFault(t) =>
           /\ result[t] = launch_ec2_instance_except(remote[t][2].error)
           /\ IsErrorEnvelope(result[t])
           /\ result[t].error_message =
                (IF IsClientError(remote[t][2].error)
                 THEN remote[t][2].error.message ELSE Str(remote[t][2].error))
           /\ DOMAIN result[t] \cap {"instances", "instance_ids", "success"} = {}
      /\ (Len(remote[t]) >= 1 /\ remote[t][1].error = NoExc) =>
           (Len(remote[t]) = 2 <=>
              (HasTags(req[t]) /\ resp[t].Instances # <<>>))

C30_Witness ==
  \E t \in Threads :
    /\ ToolDone(t) /\ caller[t] = "launch_ec2_instance"
    /\ TagFault(t)
    /\ IsClientError(remote[t][2].error)
    /\ Len(resp[t].Instances) = 2

\* C27: add_security_group_rule issues exactly one authorization call: the
\* ingress authorization iff rule_type is "ingress", the egress authorization
\* for every other value; a non-empty cidr_blocks sends its first element as
\* CidrIp and no SourceSecurityGroupId; SourceSecurityGroupId is sent only
\* when cidr_blocks is empty or absent, and then it is the request's value.
C27_OneAuthorization ==
  \A t \in Threads :
    (Running(t, "add_security_group_rule") /\
       (remote[t] # <<>> \/ (ToolDone(t) /\ origin[t] \notin {"get_session", "get_client"}))) =>
      LET call == remote[t][1]
          cidrs == IF req[t].cidr_blocks = Absent THEN <<>> ELSE req[t].cidr_blocks[1]
      IN
        /\ Len(remote[t]) = 1
        /\ call.op = (IF req[t].rule_type = "ingress"
                      THEN "authorize_security_group_ingress"
                      ELSE "authorize_security_group_egress")
        /\ cidrs # <<>> =>
             /\ "CidrIp" \in DOMAIN call.params /\ call.params.CidrIp = cidrs[1]
             /\ "SourceSecurityGroupId" \notin DOMAIN call.params
        /\ cidrs = <<>> => "CidrIp" \notin DOMAIN call.params
        /\ "SourceSecurityGroupId" \in DOMAIN call.params =>
             /\ cidrs = <<>>
             /\ req[t].source_security_group_id =
                  Some(call.params.SourceSecurityGroupId)

C27_Witness ==
  \E t \in Threads :
    /\ ToolDone(t) /\ caller[t] = "add_security_group_rule"
    /\ req[t].rule_type \notin {"ingress", "egress"}
    /\ req[t].cidr_blocks # Absent /\ Len(req[t].cidr_blocks[1]) = 2
    /\ req[t].source_security_group_id # Absent
    /\ Len(remote[t]) = 1 /\ remote[t][1].error = NoExc
    /\ remote[t][1].op = "authorize_security_group_egress"

\* the step of delete_s3_bucket a provider call belongs to: 1 while the
\* current objects are listed and deleted, 2 for the versions and delete
\* markers, 3 for the bucket itself
DeletePhase(call) ==
  CASE call.op = "list_objects_v2" -> 1
    [] call.op = "list_object_versions" -> 2
    [] call.op = "delete_objects" ->
         IF \A i \in 1..Len(call.params.Delete.Objects) :
              "VersionId" \in DOMAIN call.params.Delete.Objects[i]
         THEN 2 ELSE 1
    [] call.op = "delete_bucket" -> 3
    [] OTHER -> 0

\* the pages of a listing that hold something to delete
NonEmptyPages(bucket_) ==
  Cardinality({n \in 1..Len(bucket_.objects) : "Contents" \in DOMAIN bucket_.objects[n]})
    + Cardinality({n \in 1..Len(bucket_.versions) :
                     version_objects(bucket_.versions[n]) # <<>>})

NoFaultIn(t) == \A i \in 1..Len(remote[t]) : remote[t][i].error = NoExc

\* C25: delete_s3_bucket issues delete_bucket at most once and as its last
\* call, so after every listing and object-deletion call; with force the
\* current objects are handled before the versions and delete markers, each
\* deletion follows the listing of its page, and a run without fault lists
\* every page, deletes every non-empty page and ends with delete_bucket;
\* without force delete_bucket is the only call.
C25_DeleteBucketLast ==
  \A t \in Threads :
    Running(t, "delete_s3_bucket") =>
      /\ \A i \in 1..Len(remote[t]) : DeletePhase(remote[t][i]) \in 1..3
      /\ \A i, j \in 1..Len(remote[t]) :
           i < j => /\ DeletePhase(remote[t][i]) <= DeletePhase(remote[t][j])
                    /\ remote[t][i].op # "delete_bucket"
      /\ \A i \in CallsOf(t, "delete_objects") :
           /\ i > 1
           /\ remote[t][i - 1].op = (IF DeletePhase(remote[t][i]) = 1
                                     THEN "list_objects_v2" ELSE "list_object_versions")
           /\ remote[t][i].params.Delete.Objects # <<>>
      /\ ~req[t].force => \A i \in 1..Len(remote[t]) : remote[t][i].op = "delete_bucket"
      /\ (ToolDone(t) /\ exc[t] = NoExc) =>
           /\ CallsOf(t, "delete_bucket") = {Len(remote[t])}
           /\ result[t] = [success |-> TRUE,
                           message |-> "Bucket test-bucket deleted successfully"]
           /\ (req[t].force /\ NoFaultIn(t)) =>
                /\ Cardinality(CallsOf(t, "list_objects_v2")) = Len(bucket.objects)
                /\ Cardinality(CallsOf(t, "list_object_versions")) = Len(bucket.versions)
                /\ Cardinality(CallsOf(t, "delete_objects")) = NonEmptyPages(bucket)

C25_Witness ==
  \E t \in Threads :
    /\ Running(t, "delete_s3_bucket") /\ ToolDone(t) /\ exc[t] = NoExc
    /\ req[t].force /\ NoFaultIn(t)
    /\ Len(bucket.objects) = 2 /\ Len(bucket.versions) = 2
    /\ OpsOf(t) = <<"list_objects_v2", "delete_objects", "list_objects_v2",
                    "delete_objects", "list_object_versions", "delete_objects",
                    "list_object_versions", "delete_objects", "delete_bucket">>

\* the calls delete_s3_bucket makes inside its try block
EmptyingOps == {"list_objects_v2", "list_object_versions", "delete_objects"}

IsNoSuchBucket(e) == e.type = "ClientError" /\ e.code = "NoSuchBucket"

\* C26: in delete_s3_bucket with force, a ClientError with code NoSuchBucket
\* raised by a call that empties the bucket is swallowed and delete_bucket is
\* the next call; any other fault of such a call ends the tool with that
\* fault, and delete_bucket is not issued.
C26_OnlyNoSuchBucketSwallowed ==
  \A t \in Threads :
    Running(t, "delete_s3_bucket") =>
      \A i \in 1..Len(remote[t]) :
        (remote[t][i].op \in EmptyingOps /\ remote[t][i].error # NoExc) =>
          IF IsNoSuchBucket(remote[t][i].error)
          THEN IF i = Len(remote[t])
               THEN pc[t] = "del_bucket" /\ exc[t] = NoExc
               ELSE i + 1 = Len(remote[t]) /\ remote[t][i + 1].op = "delete_bucket"
          ELSE /\ i = Len(remote[t])
               /\ pc[t] = "idle"
               /\ exc[t] = remote[t][i].error
               /\ escaped[t]
               /\ CallsOf(t, "delete_bucket") = {}

C26_Witness ==
  \E t \in Threads :
    /\ Running(t, "delete_s3_bucket") /\ ToolDone(t) /\ req[t].force
    /\ Len(remote[t]) = 3
    /\ remote[t][2].op = "delete_objects" /\ IsNoSuchBucket(remote[t][2].error)
    /\ remote[t][3].op = "delete_bucket" /\ remote[t][3].error = NoExc
    /\ IsSuccessEnvelope(result[t])

\* the function call of the CLI ended by returning a success envelope
ReturnedSuccess(o) == ~o.raised /\ IsSuccessEnvelope(o.value)

\* the operation of the subcommand succeeded: it was not interrupted, every
\* function it had to call was called, and each returned a success envelope
OperationSucceeded ==
  /\ ~cli.interrupted
  /\ cli.command \in {"test-connection", "health-check", "list", "create"}
  /\ Len(cli.outcomes) = (IF cli.command = "health-check" THEN Len(checks) ELSE 1)
  /\ \A i \in 1..Len(cli.outcomes) : ReturnedSuccess(cli.outcomes[i])

\* C24: when MCPServerCLI.run returns, the exit code is 0 if the subcommand's
\* operation succeeded and 1 otherwise: 1 in particular when a function
\* returned an error envelope or raised, and when no command or no resource
\* was given.
C24_ExitCodeReflectsOutcome ==
  cli.pc = "done" =>
    /\ cli.code \in {0, 1}
    /\ cli.code = 0 <=> OperationSucceeded

\* C28: health-check runs the six checks in their fixed order whatever the
\* earlier checks returned or raised, and returns 0 iff each of the six
\* returned a success envelope, 1 otherwise.
C28_HealthCheckRunsAll ==
  (cli.command = "health-check" /\ cli.pc \in {"health_check", "done"}
     /\ ~cli.interrupted) =>
    /\ Len(cli.results) = Len(cli.outcomes)
    /\ Len(cli.outcomes) <= 6
    /\ \A i \in 1..Len(cli.outcomes) :
         /\ cli.outcomes[i].tool = checks[i][2]
         /\ cli.results[i][1] = checks[i][1]
         /\ cli.results[i][2] = ReturnedSuccess(cli.outcomes[i])
    /\ cli.pc = "done" <=> Len(cli.outcomes) = 6
    /\ cli.pc = "done" =>
         /\ cli.code \in {0, 1}
         /\ cli.code = 0 <=> \A i \in 1..6 : ReturnedSuccess(cli.outcomes[i])

C28_Witness ==
  /\ cli.command = "health-check" /\ cli.pc = "done" /\ ~cli.interrupted
  /\ Len(cli.outcomes) = 6
  /\ cli.outcomes[1].raised
  /\ ~cli.outcomes[2].raised /\ IsErrorEnvelope(cli.outcomes[2].value)
  /\ \A i \in 3..6 : ReturnedSuccess(cli.outcomes[i])
  /\ cli.code = 1

====
